---- MODULE Spec2Model ----
(***************************************************************************)
(* A model of the OpenClaw one-shot installer (src/installer.py) and       *)
(* uninstaller (src/uninstaller.py): the remote account the two programs   *)
(* converge and tear down, every remote call that changes it, and the      *)
(* bounded wait loops.                                                     *)
(*                                                                         *)
(* The remote account is the variable aws.  Identifiers are naturals       *)
(* handed out by aws.nextId; a describe call lists resources in            *)
(* identifier order.  Read-only remote calls (describe, get, list) always  *)
(* answer; the outcomes of mutating calls and of waits are chosen by the   *)
(* remote, within the fault bound.                                         *)
(***************************************************************************)
EXTENDS Integers, Sequences, FiniteSets, TLC

VARIABLES
    aws,        \* the remote account
    pc,         \* the program point of the running program ("idle": none)
    mode,       \* "run": Installer.run / Uninstaller.run, "call": one step called alone
    loc,        \* the installer's locals
    calls,      \* mutating remote calls issued by the current run or call, in order
    created,    \* resource kinds the current run or call has created, in order
    out,        \* Installer.out
    prevOut,    \* Installer.out of the previous completed run
    status,     \* how the last run ended
    runs,       \* Installer.run invocations so far
    log,        \* one record per finished run: [status, faults, created, calls, out, answers]
    hist,       \* one record per step called alone: [h, args, res, calls, created]
    kills,      \* interruptions so far
    faults,     \* remote refusals and exhausted waits so far
    runFaults,  \* those of the current run
    enableCf,   \* the enable_cloudfront option
    un,         \* the uninstaller's locals
    w           \* a wait loop: [kind, polls, seen, result]

vars == <<aws, pc, mode, loc, calls, created, out, prevOut, status, runs, log,
          hist, kills, faults, runFaults, enableCf, un, w>>

\* ------------------------------------------------------------------ bounds
MaxRuns == 2
MaxKills == 1
MaxFaults == 2
MaxCalls == 2
MaxUnFaults == 1
MaxVanish == 1
MaxUnRuns == 2
MaxRefusals == 1
MaxRivals == 1
MaxVpcs == 2
MaxClassified == 2
MaxUnready == 10

MaxReorders == 2

StemLen == 28

\* ------------------------------------------------------- program constants
\* A /16 fabric holds 256 /24 sub-ranges (net.subnets(new_prefix=24)).
SubnetsPerVpc == 256
NumAz == 2
PublicOffset == 0
PrivateOffset == 10
NatPolls == 60
SubnetTimeout == 120
SubnetSleep == 5
IamPolls == 20
IamMinAttempt == 5
NoCidr == -1
CfTimeout == 900
CfSleep == 15
EndpointTimeout == 180
EndpointSleep == 10
NatDeletedTimeout == 480
NatDeletedSleep == 15
MaxRounds == 6
VpcAttempts == 5
BackoffUnit == 15
LaunchAttempts == 10
LaunchSleepUnit == 5
LaunchSleepCap == 30

NameCap == 32
\* The candidate ranges of a new fabric, 10.<n>.0.0/16 named by n, and the
\* range taken when every candidate is in use.
Candidates == <<20, 21, 22, 23, 24, 25>>
FallbackCidr == 30

\* ------------------------------------------------------------------ helpers
Min(S) == CHOOSE x \in S : \A y \in S : x <= y

RECURSIVE SeqOf(_)
\* The identifiers of S in the order a describe call lists them.
SeqOf(S) == IF S = {} THEN <<>> ELSE <<Min(S)>> \o SeqOf(S \ {Min(S)})

Ids(S) == {r.id : r \in S}

Range(s) == {s[k] : k \in 1..Len(s)}

Count(s, x) == Cardinality({k \in 1..Len(s) : s[k] = x})

\* ------------------------------------------------------------------ remote
\* scope: the project name the run was given, the resources its lookups
\* return that the installer of another project made (owners), and the kinds
\* of resources of that project its lookups do not return (others).
NoScope == [project |-> <<>>, owners |-> {}, others |-> {}]

\* refusals: the calls the remote is yet to refuse among those whose error
\* the installer catches and passes over, and the create_subnet calls it is
\* yet to refuse for another reason than a collision of ranges.  reorders: the
\* listings of security groups the remote is yet to give in another order
\* than by identifier.  unready: the
\* run_instances calls the remote is yet to fail because it does not know
\* the instance profile.  fabrics: the other fabrics of the
\* account as describe_vpcs lists them, otherCidrs the blocks they hold.
FreshAws ==
    [nextId |-> 1, vpc |-> 0, vpcCidr |-> 0, otherCidrs |-> {}, fabrics |-> <<>>,
     refusals |-> 0, unready |-> 0, reorders |-> 0, scope |-> NoScope,
     subnets |-> {}, igws |-> {}, eips |-> {},
     nats |-> {}, rts |-> {}, sgs |-> {}, eps |-> {},
     role |-> FALSE, rolePolicies |-> {}, profile |-> FALSE, profileRoles |-> {},
     insts |-> {}, albs |-> {}, tgs |-> {}, listeners |-> {}, cfs |-> {},
     enis |-> {}, dns |-> FALSE]

NoArgs == [h |-> "", name |-> "", vpc |-> 0, pub |-> <<>>, priv |-> <<>>,
           sg |-> 0, inst |-> 0, alb |-> 0]

InitLoc ==
    [path |-> "", vpc |-> 0, cidr |-> 0, pub |-> <<>>, priv |-> <<>>,
     existing |-> {},
     igw |-> 0, rt |-> 0, nat |-> 0, eip |-> 0, i |-> 0, count |-> 0,
     new |-> <<>>, name |-> "", args |-> NoArgs, ec2sg |-> 0, albsg |-> 0, vpce |-> 0,
     token |-> 0, inst |-> 0, alb |-> 0, tg |-> 0, cf |-> 0,
     iamDone |-> FALSE, swallowed |-> {}, missed |-> {}, requests |-> <<>>,
     answers |-> <<>>, attempt |-> 0, sleeps |-> <<>>]

NoOut == [done |-> FALSE]

\* The uninstaller's locals and what it has logged: the identifiers its
\* warnings name (warned), those it counted as blocked (blocked), those whose
\* delete call answered "not found" (notFound), those still refused as
\* referenced when the bound of their retries was used up (exhausted).  stale
\* holds what a describe call listed and is gone when the delete call comes.
\* roundLog has one entry for each round of the two retry loops (what it
\* listed, whose delete failed, whether it slept), sgOps the calls made on
\* the security groups with what they carried, kept when opLog is set.
\* cfObserved holds the
\* distributions _wait_cf_deployed saw as Deployed, cfTried those
\* delete_cloudfront called delete_distribution on.  lbListeners holds the
\* listeners that were there when delete_load_balancer was called,
\* tgBalancers the load balancers that were there when delete_target_group
\* was called.
InitUn ==
    [started |-> FALSE, touched |-> {}, natEips |-> {}, round |-> 0, attempt |-> 0,
     sleeps |-> <<>>, listed |-> <<>>, vpcResult |-> "", waited |-> {},
     runs |-> 0, clean |-> FALSE, stale |-> {}, vanishes |-> 0, notFound |-> {},
     blocked |-> {}, warned |-> {}, exhausted |-> {}, roundLog |-> <<>>,
     sgOps |-> <<>>, cfObserved |-> {}, cfTried |-> {}, lbListeners |-> {},
     tgBalancers |-> {}, opLog |-> FALSE]

InitW == [kind |-> "", polls |-> 0, seen |-> FALSE, result |-> "", caller |-> "",
          last |-> ""]

\* The outbound rule every security group is created with.
DefaultEgressRule == [proto |-> "-1", ranges |-> <<"0.0.0.0/0">>]

\* _classify_subnets: by Name tag first, then by a route to an internet
\* gateway in an associated route table; everything else is private.
IsPublicSubnet(a, s) ==
    IF s.tier = "public" THEN TRUE
    ELSE IF s.tier = "private" THEN FALSE
    ELSE \E rt \in a.rts : s.id \in rt.assoc /\ rt.igw # 0

ClassifyPublic(a) == SeqOf({s.id : s \in {t \in a.subnets : IsPublicSubnet(a, t)}})

ClassifyPrivate(a) == SeqOf({s.id : s \in {t \in a.subnets : ~IsPublicSubnet(a, t)}})

\* _get_available_cidr: the first candidate that no fabric of the account
\* has, the fallback range when each has one.
GetAvailableCidr_Fallback(existing) == FallbackCidr

GetAvailableCidr(existing) ==
    LET free == {k \in 1..Len(Candidates) : Candidates[k] \notin existing}
    IN IF free # {} THEN Candidates[Min(free)] ELSE FallbackCidr

\* Installer._pick_cidr over sub-range indices 0 .. allN-1.
PickCidr(allN, existing, preferred) ==
    IF preferred < allN /\ preferred \notin existing THEN preferred
    ELSE IF (0..(allN - 1)) \ existing # {} THEN Min((0..(allN - 1)) \ existing)
    ELSE NoCidr

\* What a wait loop does when its bound is used up: _wait_nat raises,
\* _wait_cf_deployed returns False, the others fall off their loop and return.
OnExhausted_NeverRaises(kind) ==
    IF kind = "cf_deployed" THEN "false"
    ELSE "return"

OnExhausted(kind) ==
    IF kind = "nat" THEN "raise"
    ELSE IF kind = "cf_deployed" THEN "false"
    ELSE "return"

\* The polls a wait loop makes before its bound is used up.  The loops bounded
\* by a time budget make one poll per sleep interval.
WaitBound(kind) ==
    IF kind = "nat" THEN NatPolls
    ELSE IF kind = "subnet" THEN SubnetTimeout \div SubnetSleep
    ELSE IF kind = "iam" THEN IamPolls
    ELSE IF kind = "cf_deployed" THEN CfTimeout \div CfSleep
    ELSE IF kind = "endpoints_deleted" THEN EndpointTimeout \div EndpointSleep
    ELSE NatDeletedTimeout \div NatDeletedSleep

\* ------------------------------------------------------------ control flow
\* Installer.run: the stages in source order, each named by its entry point.
StageAfter_ComputeFirst(s) ==
    IF s = "net" THEN "userdata"
    ELSE IF s = "userdata" THEN "ec2"
    ELSE IF s = "ec2" THEN "iam"
    ELSE IF s = "iam" THEN "sg_ec2"
    ELSE IF s = "sg_ec2" THEN "sg_alb"
    ELSE IF s = "sg_alb" THEN "ingress1"
    ELSE IF s = "ingress" THEN "vpce"
    ELSE IF s = "vpce" THEN "alb"
    ELSE IF s = "alb" THEN (IF enableCf THEN "cf" ELSE "finish")
    ELSE "finish"

StageAfter(s) ==
    IF s = "net" THEN "iam"
    ELSE IF s = "iam" THEN "sg_ec2"
    ELSE IF s = "sg_ec2" THEN "sg_alb"
    ELSE IF s = "sg_alb" THEN "ingress1"
    ELSE IF s = "ingress" THEN "vpce"
    ELSE IF s = "vpce" THEN "userdata"
    ELSE IF s = "userdata" THEN "ec2"
    ELSE IF s = "ec2" THEN "alb"
    ELSE IF s = "alb" THEN (IF enableCf THEN "cf" ELSE "finish")
    ELSE "finish"

\* A step that stays inside its method.  f is 1 when the remote refused.
Step(a2, l2, cs, ks, nextpc, f) ==
    /\ aws' = a2
    /\ loc' = l2
    /\ calls' = calls \o cs
    /\ created' = created \o ks
    /\ pc' = nextpc
    /\ faults' = faults + f
    /\ runFaults' = runFaults + f
    /\ UNCHANGED <<mode, out, prevOut, status, runs, log, hist, kills, enableCf, un, w>>

\* Method h returns res: to the caller's next statement, or to the harness.
Return(h, res, a2, l2, cs, ks, nextpc) ==
    /\ aws' = a2
    /\ loc' = l2
    /\ calls' = calls \o cs
    /\ created' = created \o ks
    /\ IF mode = "call"
       THEN /\ pc' = "idle"
            /\ mode' = "idle"
            /\ hist' = Append(hist, [h |-> h, args |-> loc.args, res |-> res,
                                      calls |-> calls \o cs,
                                      created |-> created \o ks])
       ELSE /\ pc' = nextpc
            /\ UNCHANGED <<mode, hist>>
    /\ UNCHANGED <<out, prevOut, status, runs, log, kills, faults, runFaults,
                   enableCf, un, w>>

\* An exception leaves the method and, uncaught, the run.
Abort(h, err, a2, cs, f) ==
    /\ aws' = a2
    /\ calls' = calls \o cs
    /\ pc' = "idle"
    /\ mode' = "idle"
    /\ faults' = faults + f
    /\ runFaults' = runFaults + f
    /\ IF mode = "call"
       THEN /\ hist' = Append(hist, [h |-> h, args |-> loc.args, res |-> <<-1>>,
                                      calls |-> calls \o cs, created |-> created])
            /\ UNCHANGED <<status, log>>
       ELSE /\ status' = err
            /\ log' = Append(log, [status |-> err, faults |-> runFaults + f,
                                    created |-> created, calls |-> calls \o cs,
                                    out |-> out,
                                    answers |-> loc.answers])
            /\ hist' = hist
    /\ UNCHANGED <<loc, created, out, prevOut, runs, kills, enableCf, un, w>>

\* ------------------------------------------------------- Installer: network
StartRun ==
    /\ pc = "idle"
    /\ runs < MaxRuns
    /\ hist = <<>>
    /\ pc' = "net"
    /\ mode' = "run"
    /\ runs' = runs + 1
    /\ loc' = InitLoc
    /\ calls' = <<>>
    /\ created' = <<>>
    /\ out' = NoOut
    /\ prevOut' = IF out.done THEN out ELSE prevOut
    /\ runFaults' = 0
    /\ status' = "running"
    /\ UNCHANGED <<aws, log, hist, kills, faults, enableCf, un, w>>

\* The process is killed between two remote calls.
Interrupt ==
    /\ mode = "run"
    /\ pc \notin {"idle", "finish"}
    /\ kills < MaxKills
    /\ kills' = kills + 1
    /\ pc' = "idle"
    /\ mode' = "idle"
    /\ status' = "interrupted"
    /\ log' = Append(log, [status |-> "interrupted", faults |-> runFaults,
                            created |-> created, calls |-> calls, out |-> out,
                                    answers |-> loc.answers])
    /\ UNCHANGED <<aws, loc, calls, created, out, prevOut, runs, hist, faults,
                   runFaults, enableCf, un, w>>

\* _ensure_vpc_networking with a fabric found: the head of _reuse_vpc.
ReuseVpc ==
    /\ pc = "net"
    /\ aws.vpc # 0
    /\ Step(aws,
            [loc EXCEPT !.path = "reuse", !.vpc = aws.vpc, !.cidr = aws.vpcCidr,
                        !.pub = ClassifyPublic(aws), !.priv = ClassifyPrivate(aws),
                        !.existing = {s.idx : s \in aws.subnets}],
            <<>>, <<>>, "igw", 0)

\* _ensure_vpc_networking with none found: create_vpc.  The remote gives a
\* new fabric its main route table and its default security group.
CreateVpc ==
    /\ pc = "net"
    /\ aws.vpc = 0
    /\ LET id == aws.nextId
           cidr == GetAvailableCidr(aws.otherCidrs)
       IN
       Step([aws EXCEPT !.vpc = id, !.vpcCidr = cidr, !.nextId = id + 3,
                        !.rts = @ \cup {[id |-> id + 1, main |-> TRUE, igw |-> 0,
                                         nat |-> 0, assoc |-> {}]},
                        !.sgs = @ \cup {[id |-> id + 2, name |-> "default",
                                         rules |-> {},
                                         egress |-> {DefaultEgressRule}]}],
            [loc EXCEPT !.path = "create", !.vpc = id, !.cidr = cidr],
            <<"create_vpc">>, <<"vpc">>, "vpc_attr", 0)

ModifyVpcAttribute ==
    /\ pc = "vpc_attr"
    /\ Step([aws EXCEPT !.dns = TRUE], loc,
            <<"modify_vpc_attribute", "modify_vpc_attribute">>, <<>>, "igw", 0)

AfterIgw == IF loc.path = "create" \/ Len(loc.pub) < 2 THEN "pub_rt" ELSE "nat"

\* _get_or_create_igw up to create_internet_gateway.
GetOrCreateIgw ==
    /\ pc = "igw"
    /\ LET found == {g \in aws.igws : g.attached}
           id == aws.nextId
       IN IF found # {}
          THEN Return("igw", <<Min(Ids(found))>>, aws,
                      [loc EXCEPT !.igw = Min(Ids(found))], <<>>, <<>>, AfterIgw)
          ELSE Step([aws EXCEPT !.nextId = id + 1,
                                !.igws = @ \cup {[id |-> id, attached |-> FALSE]}],
                    [loc EXCEPT !.igw = id],
                    <<"create_internet_gateway">>, <<"igw">>, "igw_attach", 0)

AttachIgw ==
    /\ pc = "igw_attach"
    /\ Return("igw", <<loc.igw>>,
              [aws EXCEPT !.igws = {IF g.id = loc.igw
                                    THEN [g EXCEPT !.attached = TRUE] ELSE g
                                    : g \in @}],
              loc, <<"attach_internet_gateway">>, <<>>, AfterIgw)

\* The locals of one _create_subnets call.
SubnetLoop(l, rt, count) == [l EXCEPT !.rt = rt, !.i = 0, !.count = count, !.new = <<>>]

PublicCount == IF loc.path = "create" THEN 2 ELSE 2 - Len(loc.pub)

\* _find_or_create_public_rt up to create_route_table.
FindOrCreatePublicRt ==
    /\ pc = "pub_rt"
    /\ LET found == {rt \in aws.rts : rt.igw = loc.igw}
           id == aws.nextId
       IN IF found # {}
          THEN Step(aws, SubnetLoop(loc, Min(Ids(found)), PublicCount),
                    <<>>, <<>>, "pub_sub", 0)
          ELSE Step([aws EXCEPT !.nextId = id + 1,
                                !.rts = @ \cup {[id |-> id, main |-> FALSE, igw |-> 0,
                                                 nat |-> 0, assoc |-> {}]}],
                    [loc EXCEPT !.rt = id],
                    <<"create_route_table:public">>, <<"rt:public">>,
                    "pub_rt_route", 0)

CreatePublicRoute ==
    /\ pc = "pub_rt_route"
    /\ Step([aws EXCEPT !.rts = {IF rt.id = loc.rt THEN [rt EXCEPT !.igw = loc.igw]
                                 ELSE rt : rt \in @}],
            SubnetLoop(loc, loc.rt, PublicCount),
            <<"create_route:public">>, <<>>, "pub_sub", 0)

TierOf(p) == IF p = "pub_sub" THEN "public" ELSE "private"

OffsetOf(p) == IF p = "pub_sub" THEN PublicOffset ELSE PrivateOffset

\* The call named c was refused and its error caught and passed over.
Swallowed(l, c) == [l EXCEPT !.swallowed = @ \cup {c}]

\* The error codes that _authorize_ingress and _find_or_create_private_rt
\* catch and pass over; every other one is raised again.
Absorbed_None(call, code) == FALSE

Absorbed(call, code) ==
    \/ call = "authorize_security_group_ingress" /\ code = "InvalidPermission.Duplicate"
    \/ call = "create_route:private" /\ code = "RouteAlreadyExists"

\* The remote's answer to a call that did not raise out of its method.
Answered(l, call, code) ==
    [l EXCEPT !.answers = Append(@, [call |-> call, code |-> code])]

\* A create_subnet call of _create_subnets: the index asked for, the index
\* requested, the set of known ranges at that time and what the remote
\* answered.
Request(tier, preferred, sn, existing, outcome) ==
    [tier |-> tier, preferred |-> preferred, idx |-> sn, existing |-> existing,
     outcome |-> outcome]

Requested(l, tier, preferred, sn, outcome) ==
    [l EXCEPT !.requests = Append(@, Request(tier, preferred, sn, l.existing, outcome))]

\* One iteration of the loop of _create_subnets.  The remote accepts the
\* range, or refuses it as InvalidSubnet.Overlap / InvalidSubnet.Range, which
\* the loop logs and passes over, or refuses the call for another reason,
\* which leaves the run; it accepts associate_route_table or refuses it,
\* which the loop passes over.
CreateSubnet ==
    /\ pc \in {"pub_sub", "priv_sub"}
    /\ loc.i < loc.count
    /\ LET tier == TierOf(pc)
           preferred == OffsetOf(pc) + loc.i
           sn == PickCidr(SubnetsPerVpc, loc.existing, preferred)
           az == (loc.i % NumAz) + 1
           id == aws.nextId
           call == "create_subnet:" \o tier
       IN IF sn = NoCidr
          THEN Step(aws, [loc EXCEPT !.i = @ + 1], <<>>, <<>>, pc, 0)
          ELSE \E ok \in BOOLEAN, assoc \in BOOLEAN :
                 IF ok
                 THEN /\ ~assoc => aws.refusals > 0
                      /\ Step([aws EXCEPT
                                 !.nextId = id + 1,
                                 !.subnets = @ \cup {[id |-> id, tier |-> tier,
                                                      az |-> az, idx |-> sn]},
                                 !.rts = {IF rt.id = loc.rt /\ assoc
                                          THEN [rt EXCEPT !.assoc = @ \cup {id}]
                                          ELSE rt : rt \in @},
                                 !.refusals = IF assoc THEN @ ELSE @ - 1],
                              [Requested(IF assoc THEN loc
                                         ELSE Swallowed(loc, "associate_route_table"),
                                         tier, preferred, sn, "created")
                                 EXCEPT !.i = @ + 1, !.existing = @ \cup {sn},
                                        !.new = Append(@, id)],
                              <<call>>
                                \o (IF tier = "public"
                                    THEN <<"modify_subnet_attribute">> ELSE <<>>)
                                \o <<"associate_route_table">>,
                              <<"subnet:" \o tier>>, pc, 0)
                 ELSE IF assoc
                 THEN /\ faults < MaxFaults
                      /\ Step(aws,
                              [Requested(loc, tier, preferred, sn, "collision")
                                 EXCEPT !.i = @ + 1],
                              <<call>>, <<>>, pc, 1)
                 ELSE /\ aws.refusals > 0
                      /\ Abort("net", "SubnetLimitExceeded",
                               [aws EXCEPT !.refusals = @ - 1], <<call>>, 0)

\* describe_nat_gateways of the fabric in state available or pending.
NatCandidates_PendingOnly(a) == {n \in a.nats : n.state \in {"pending"}}

NatCandidates(a) == {n \in a.nats : n.state \in {"available", "pending"}}

AfterNat == IF loc.path = "create" \/ loc.priv = <<>> THEN "priv_rt" ELSE "main_route"

\* The statements after a _create_subnets call, up to the next method call:
\* public_subnets[0] and private_subnets are read here.
EndSubnets ==
    /\ pc \in {"pub_sub", "priv_sub"}
    /\ loc.i = loc.count
    /\ IF pc = "pub_sub"
       THEN LET pub == IF loc.path = "create" THEN loc.new ELSE loc.pub \o loc.new
            IN IF pub = <<>>
               THEN Abort("net", "IndexError", aws, <<>>, 0)
               ELSE Step(aws, [loc EXCEPT !.pub = pub], <<>>, <<>>, "nat", 0)
       ELSE Step(aws, [loc EXCEPT !.priv = loc.new], <<>>, <<>>,
                 IF loc.path = "create" THEN StageAfter("net") ELSE "main_route", 0)

\* _get_or_create_nat up to allocate_address.
GetOrCreateNat ==
    /\ pc = "nat"
    /\ LET cands == NatCandidates(aws)
           named == {n \in cands : n.named}
           first == CHOOSE n \in named : n.id = Min(Ids(named))
           id == aws.nextId
       IN IF named # {}
          THEN IF first.state = "pending"
               THEN Step(aws, [loc EXCEPT !.nat = first.id], <<>>, <<>>, "nat_wait", 0)
               ELSE Return("nat", <<first.id>>, aws, [loc EXCEPT !.nat = first.id],
                           <<>>, <<>>, AfterNat)
          ELSE IF cands # {}
          THEN Return("nat", <<Min(Ids(cands))>>, aws,
                      [loc EXCEPT !.nat = Min(Ids(cands))], <<>>, <<>>, AfterNat)
          ELSE Step([aws EXCEPT !.nextId = id + 1, !.eips = @ \cup {id}],
                    [loc EXCEPT !.eip = id],
                    <<"allocate_address">>, <<"eip">>, "nat_create", 0)

CreateNatGateway ==
    /\ pc = "nat_create"
    /\ LET id == aws.nextId IN
       Step([aws EXCEPT !.nextId = id + 1,
                        !.nats = @ \cup {[id |-> id, state |-> "pending",
                                          eip |-> loc.eip, named |-> TRUE,
                                          subnet |-> loc.pub[1]]}],
            [loc EXCEPT !.nat = id],
            <<"create_nat_gateway">>, <<"nat">>, "nat_wait", 0)

\* _wait_nat as its caller sees it: the gateway is observed available within
\* the bound, or the bound is used up.
WaitNat ==
    /\ pc = "nat_wait"
    /\ \E ready \in BOOLEAN :
         IF ready
         THEN Return("nat", <<loc.nat>>,
                     [aws EXCEPT !.nats = {IF n.id = loc.nat
                                           THEN [n EXCEPT !.state = "available"]
                                           ELSE n : n \in @}],
                     loc, <<>>, <<>>, AfterNat)
         ELSE /\ faults < MaxFaults
              /\ IF OnExhausted("nat") = "raise"
                 THEN Abort("nat", "RuntimeError", aws, <<>>, 1)
                 ELSE Return("nat", <<loc.nat>>, aws, loc, <<>>, <<>>, AfterNat)

\* _find_or_create_private_rt up to create_route_table.
FindOrCreatePrivateRt ==
    /\ pc = "priv_rt"
    /\ LET found == {rt \in aws.rts : rt.nat = loc.nat}
           id == aws.nextId
       IN IF found # {}
          THEN Step(aws, SubnetLoop(loc, Min(Ids(found)), 2), <<>>, <<>>, "priv_sub", 0)
          ELSE Step([aws EXCEPT !.nextId = id + 1,
                                !.rts = @ \cup {[id |-> id, main |-> FALSE, igw |-> 0,
                                                 nat |-> 0, assoc |-> {}]}],
                    [loc EXCEPT !.rt = id],
                    <<"create_route_table:private">>, <<"rt:private">>,
                    "priv_rt_route", 0)

\* create_route on the new table: the remote adds the route, or answers
\* RouteAlreadyExists to a request it had applied when it was sent again, or
\* refuses.
CreatePrivateRoute ==
    /\ pc = "priv_rt_route"
    /\ \E code \in {"ok", "RouteAlreadyExists", "RouteLimitExceeded"} :
         /\ code # "ok" => aws.refusals > 0
         /\ IF code = "ok" \/ Absorbed("create_route:private", code)
            THEN Step([aws EXCEPT !.rts = {IF rt.id = loc.rt
                                          THEN [rt EXCEPT !.nat = loc.nat]
                                          ELSE rt : rt \in @},
                                 !.refusals = IF code = "ok" THEN @ ELSE @ - 1],
                      Answered(SubnetLoop(loc, loc.rt, 2), "create_route:private", code),
                      <<"create_route:private">>, <<>>, "priv_sub", 0)
            ELSE Abort("net", code,
                       [aws EXCEPT !.rts = {IF rt.id = loc.rt /\ code = "RouteAlreadyExists"
                                            THEN [rt EXCEPT !.nat = loc.nat]
                                            ELSE rt : rt \in @},
                                   !.refusals = @ - 1],
                       <<"create_route:private">>, 0)

\* _ensure_main_route_igw: the main route table gets a default route to the
\* internet gateway when it has none; a refused create_route is passed over.
EnsureMainRouteIgw ==
    /\ pc = "main_route"
    /\ LET mains == {rt \in aws.rts : rt.main}
           m == CHOOSE rt \in mains : rt.id = Min(Ids(mains))
       IN IF mains # {} /\ m.igw = 0
          THEN \E ok \in BOOLEAN :
                 IF ok
                 THEN Step([aws EXCEPT !.rts = {IF rt.id = m.id
                                                THEN [rt EXCEPT !.igw = loc.igw]
                                                ELSE rt : rt \in @}],
                           loc, <<"create_route:main">>, <<>>, StageAfter("net"), 0)
                 ELSE /\ aws.refusals > 0
                      /\ Step([aws EXCEPT !.refusals = @ - 1],
                              Swallowed(loc, "create_route:main"),
                              <<"create_route:main">>, <<>>, StageAfter("net"), 0)
          ELSE Step(aws, loc, <<>>, <<>>, StageAfter("net"), 0)

\* ----------------------------------------------------------- Installer: IAM
\* _ensure_iam: create_role, EntityAlreadyExists absorbed.
CreateRole ==
    /\ pc = "iam"
    /\ Step([aws EXCEPT !.role = TRUE], loc, <<"create_role">>,
            IF aws.role THEN <<>> ELSE <<"role">>, "iam_policies", 0)

\* A refused attach_role_policy is passed over.
PutRolePolicies ==
    /\ pc = "iam_policies"
    /\ \E ok \in BOOLEAN :
         IF ok
         THEN Step([aws EXCEPT !.rolePolicies = {"BedrockAccess",
                                                 "AmazonSSMManagedInstanceCore"}],
                   loc,
                   <<"update_assume_role_policy", "put_role_policy",
                     "attach_role_policy">>,
                   <<>>, "iam_profile", 0)
         ELSE /\ aws.refusals > 0
              /\ Step([aws EXCEPT !.rolePolicies = @ \cup {"BedrockAccess"},
                                  !.refusals = @ - 1],
                      Swallowed(loc, "attach_role_policy"),
                      <<"update_assume_role_policy", "put_role_policy",
                        "attach_role_policy">>,
                      <<>>, "iam_profile", 0)

CreateInstanceProfile ==
    /\ pc = "iam_profile"
    /\ Step([aws EXCEPT !.profile = TRUE], loc, <<"create_instance_profile">>,
            IF aws.profile THEN <<>> ELSE <<"profile">>, "iam_attach", 0)

\* The role is put into the profile unless it is there; other roles leave first.
AttachRole ==
    /\ pc = "iam_attach"
    /\ IF "bedrock-role" \in aws.profileRoles
       THEN Step(aws, loc, <<>>, <<>>, "iam_poll", 0)
       ELSE Step([aws EXCEPT !.profileRoles = {"bedrock-role"}], loc,
                 [k \in 1..Cardinality(aws.profileRoles)
                    |-> "remove_role_from_instance_profile"]
                   \o <<"add_role_to_instance_profile">>,
                 <<>>, "iam_poll", 0)

\* The propagation poll ends, by its break or by its bound, and _ensure_iam
\* returns either way; a refused get_instance_profile is passed over.
PollProfile ==
    /\ pc = "iam_poll"
    /\ \E ok \in BOOLEAN :
         IF ok
         THEN Return("iam", <<1>>, aws, [loc EXCEPT !.iamDone = TRUE], <<>>, <<>>,
                     StageAfter("iam"))
         ELSE /\ aws.refusals > 0
              /\ Return("iam", <<1>>, [aws EXCEPT !.refusals = @ - 1],
                        [Swallowed(loc, "get_instance_profile")
                           EXCEPT !.iamDone = TRUE],
                        <<>>, <<>>, StageAfter("iam"))

\* ---------------------------------------------- Installer: security groups
\* describe_security_groups by group-name and vpc-id.
FindSg_ByDescription(a, name) == {g \in a.sgs : g.name = "OpenClaw SG"}

FindSg(a, name) == {g \in a.sgs : g.name = name}

SgName == IF pc = "sg_ec2" THEN "ec2" ELSE IF pc = "sg_alb" THEN "alb" ELSE loc.name

WithSg(l, name, id) ==
    IF name = "ec2" THEN [l EXCEPT !.ec2sg = id] ELSE [l EXCEPT !.albsg = id]

GetOrCreateSg ==
    /\ pc \in {"sg_ec2", "sg_alb", "sg"}
    /\ LET found == FindSg(aws, SgName)
           id == aws.nextId
       IN IF ("sg:" \o SgName) \in loc.missed
          THEN Abort("sg", "InvalidGroup.Duplicate", aws,
                     <<"create_security_group:" \o SgName>>, 0)
          ELSE IF found # {}
          THEN Return("sg", <<Min(Ids(found))>>, aws,
                      WithSg(loc, SgName, Min(Ids(found))), <<>>, <<>>, StageAfter(pc))
          ELSE Return("sg", <<id>>,
                      [aws EXCEPT !.nextId = id + 1,
                                  !.sgs = @ \cup {[id |-> id, name |-> SgName,
                                                   rules |-> {},
                                                   egress |-> {DefaultEgressRule}]}],
                      WithSg(loc, SgName, id),
                      <<"create_security_group:" \o SgName>>, <<"sg:" \o SgName>>,
                      StageAfter(pc))

\* The three _authorize_ingress calls of run: the remote adds the rule,
\* answers InvalidPermission.Duplicate when the group has it, or refuses.
IngressRule(p) ==
    IF p = "ingress1" THEN [sg |-> loc.albsg, rule |-> "alb:80:world"]
    ELSE IF p = "ingress2" THEN [sg |-> loc.ec2sg, rule |-> "ec2:gateway:alb-sg"]
    ELSE [sg |-> loc.ec2sg, rule |-> "ec2:443:vpc"]

AuthorizeIngress ==
    /\ pc \in {"ingress1", "ingress2", "ingress3"}
    /\ LET r == IngressRule(pc)
           call == "authorize_security_group_ingress:" \o r.rule
           present == \E g \in aws.sgs : g.id = r.sg /\ r.rule \in g.rules
       IN \E code \in {"ok", "InvalidPermission.Duplicate",
                        "RulesPerSecurityGroupLimitExceeded"} :
            /\ code = "ok" => ~present
            /\ code = "InvalidPermission.Duplicate" => present
            /\ code = "RulesPerSecurityGroupLimitExceeded" => aws.refusals > 0
            /\ IF code = "ok" \/ Absorbed("authorize_security_group_ingress", code)
               THEN Step([aws EXCEPT !.sgs = {IF g.id = r.sg /\ code = "ok"
                                             THEN [g EXCEPT !.rules = @ \cup {r.rule}]
                                             ELSE g : g \in @}],
                         Answered(loc, call, code), <<call>>, <<>>,
                         IF pc = "ingress1" THEN "ingress2"
                         ELSE IF pc = "ingress2" THEN "ingress3"
                         ELSE StageAfter("ingress"), 0)
               ELSE Abort("sg", code,
                          [aws EXCEPT !.refusals =
                               IF code = "RulesPerSecurityGroupLimitExceeded"
                               THEN @ - 1 ELSE @],
                          <<call>>, 0)

\* ------------------------------------------------------ Installer: endpoint
EnsureBedrockEndpoint ==
    /\ pc = "vpce"
    /\ LET id == aws.nextId IN
       IF aws.eps # {}
       THEN Return("vpce", <<Min(Ids(aws.eps))>>, aws,
                   [loc EXCEPT !.vpce = Min(Ids(aws.eps))], <<>>, <<>>,
                   StageAfter("vpce"))
       ELSE Return("vpce", <<id>>,
                   [aws EXCEPT !.nextId = id + 1,
                               !.eps = @ \cup {[id |-> id, state |-> "available",
                                                subnets |-> Range(loc.priv)]}],
                   [loc EXCEPT !.vpce = id],
                   <<"create_vpc_endpoint">>, <<"vpce">>, StageAfter("vpce"))

\* secrets.token_hex: a token no earlier run had.
RenderUserData ==
    /\ pc = "userdata"
    /\ Step(aws, [loc EXCEPT !.token = runs], <<>>, <<>>, StageAfter("userdata"), 0)

\* ------------------------------------------------------ Installer: instance
\* Whether the launch loop of _create_ec2 goes round again after attempt
\* (0-based) failed with code.
LaunchRetries_AnyError(code, attempt) == attempt < LaunchAttempts - 1

LaunchRetries(code, attempt) ==
    code = "Invalid IAM Instance Profile" /\ attempt < LaunchAttempts - 1

\* The sleep after attempt (0-based) failed.
LaunchWait(attempt) == Min({(attempt + 1) * LaunchSleepUnit, LaunchSleepCap})

\* One pass of the launch loop: run_instances launches the instance, or
\* fails because the profile is not known yet, or fails otherwise.
RunInstances ==
    LET id == aws.nextId IN
    \E code \in {"ok", "Invalid IAM Instance Profile", "InsufficientInstanceCapacity"} :
        /\ code = "Invalid IAM Instance Profile" => aws.unready > 0
        /\ code = "InsufficientInstanceCapacity" => aws.refusals > 0
        /\ IF code = "ok"
           THEN Step([aws EXCEPT !.nextId = id + 1,
                                 !.insts = @ \cup {[id |-> id, state |-> "pending",
                                                   token |-> loc.token,
                                                   subnet |-> loc.priv[1]]}],
                     [loc EXCEPT !.inst = id],
                     <<"run_instances">>, <<"instance">>, "ec2_wait", 0)
           ELSE IF LaunchRetries(code, loc.attempt)
           THEN Step([aws EXCEPT !.unready = @ - 1],
                     [Answered(loc, "run_instances", code)
                        EXCEPT !.attempt = @ + 1,
                               !.sleeps = Append(@, LaunchWait(loc.attempt))],
                     <<"run_instances">>, <<>>, "ec2_launch", 0)
           ELSE Abort("ec2", code,
                      IF code = "Invalid IAM Instance Profile"
                      THEN [aws EXCEPT !.unready = @ - 1]
                      ELSE [aws EXCEPT !.refusals = @ - 1],
                      <<"run_instances">>, 0)

\* _create_ec2 up to the first run_instances; run reads private_subnets[0]
\* for it.
CreateEc2 ==
    /\ pc = "ec2"
    /\ LET live == {i \in aws.insts : i.state \in {"running", "stopped", "pending"}}
           first == CHOOSE i \in live : i.id = Min(Ids(live))
           id == aws.nextId
       IN IF loc.priv = <<>>
          THEN Abort("ec2", "IndexError", aws, <<>>, 0)
          ELSE IF live # {}
          THEN IF first.state = "running"
               THEN Return("ec2", <<first.id>>, aws, [loc EXCEPT !.inst = first.id],
                           <<>>, <<>>, StageAfter("ec2"))
               ELSE Step(aws, [loc EXCEPT !.inst = first.id],
                         IF first.state = "stopped" THEN <<"start_instances">> ELSE <<>>,
                         <<>>, "ec2_wait", 0)
          ELSE RunInstances

\* The launch loop of _create_ec2 after a failed attempt and its sleep.
RetryRunInstances ==
    /\ pc = "ec2_launch"
    /\ RunInstances

\* The instance_running waiter.
WaitInstanceRunning ==
    /\ pc = "ec2_wait"
    /\ \E ready \in BOOLEAN :
         IF ready
         THEN Return("ec2", <<loc.inst>>,
                     [aws EXCEPT !.insts = {IF i.id = loc.inst
                                            THEN [i EXCEPT !.state = "running"]
                                            ELSE i : i \in @}],
                     loc, <<>>, <<>>, StageAfter("ec2"))
         ELSE /\ faults < MaxFaults
              /\ Abort("ec2", "WaiterError", aws, <<>>, 1)

\* ------------------------------------------------- Installer: load balancer
\* describe_target_groups(LoadBalancerArn): the groups a listener forwards to.
TgsOf(a, alb) == {l.tg : l \in {x \in a.listeners : x.alb = alb}}

\* _ensure_target_registered
EnsureTargetRegistered(a, tg, inst) ==
    [aws2 |-> [a EXCEPT !.tgs = {IF t.id = tg THEN [t EXCEPT !.targets = @ \cup {inst}]
                                 ELSE t : t \in @}],
     calls |-> (IF \E t \in a.tgs : t.id = tg /\ inst \in t.targets
                THEN <<>> ELSE <<"register_targets">>)
               \o <<"modify_target_group">>]

\* _create_alb up to create_load_balancer.
CreateAlb ==
    /\ pc = "alb"
    /\ LET id == aws.nextId
           alb == Min(Ids(aws.albs))
           tgs == TgsOf(aws, alb)
           e == EnsureTargetRegistered(aws, Min(tgs), loc.inst)
       IN IF "alb" \in loc.missed
          THEN Abort("alb", "DuplicateLoadBalancerName", aws,
                     <<"create_load_balancer">>, 0)
          ELSE IF aws.albs # {}
          THEN IF tgs # {}
               THEN Return("alb", <<alb, Min(tgs)>>, e.aws2,
                           [loc EXCEPT !.alb = alb, !.tg = Min(tgs)],
                           e.calls, <<>>, StageAfter("alb"))
               ELSE Return("alb", <<alb, 0>>, aws, [loc EXCEPT !.alb = alb, !.tg = 0],
                           <<>>, <<>>, StageAfter("alb"))
          ELSE Step([aws EXCEPT !.nextId = id + 1,
                                !.albs = @ \cup {[id |-> id, state |-> "active",
                                                 subnets |-> Range(loc.pub)]}],
                    [loc EXCEPT !.alb = id],
                    <<"create_load_balancer">>, <<"alb">>, "alb_tg", 0)

CreateTargetGroup ==
    /\ pc = "alb_tg"
    /\ LET id == aws.nextId IN
       IF aws.tgs # {}
       THEN Step(aws, [loc EXCEPT !.tg = Min(Ids(aws.tgs))],
                 <<"create_target_group">>, <<>>, "alb_reg", 0)
       ELSE Step([aws EXCEPT !.nextId = id + 1,
                             !.tgs = @ \cup {[id |-> id, targets |-> {}]}],
                 [loc EXCEPT !.tg = id],
                 <<"create_target_group">>, <<"tg">>, "alb_reg", 0)

RegisterTargets ==
    /\ pc = "alb_reg"
    /\ Step([aws EXCEPT !.tgs = {IF t.id = loc.tg
                                 THEN [t EXCEPT !.targets = @ \cup {loc.inst}]
                                 ELSE t : t \in @}],
            loc, <<"register_targets">>, <<>>, "alb_listener", 0)

CreateListener ==
    /\ pc = "alb_listener"
    /\ LET id == aws.nextId IN
       Return("alb", <<loc.alb, loc.tg>>,
              [aws EXCEPT !.nextId = id + 1,
                          !.listeners = @ \cup {[id |-> id, alb |-> loc.alb,
                                                 tg |-> loc.tg]}],
              loc, <<"create_listener">>, <<"listener">>, StageAfter("alb"))

\* --------------------------------------------------- Installer: CloudFront
CreateCloudfront ==
    /\ pc = "cf"
    /\ LET id == aws.nextId IN
       IF aws.cfs # {}
       THEN Return("cf", <<Min(Ids(aws.cfs))>>, aws,
                   [loc EXCEPT !.cf = Min(Ids(aws.cfs))], <<>>, <<>>, "finish")
       ELSE Return("cf", <<id>>,
                   [aws EXCEPT !.nextId = id + 1,
                               !.cfs = @ \cup {[id |-> id, enabled |-> TRUE,
                                                status |-> "InProgress",
                                                origin |-> loc.alb]}],
                   [loc EXCEPT !.cf = id],
                   <<"create_distribution">>, <<"cf">>, "finish")

\* The record Installer.run builds and returns.
Record(l) ==
    [done |-> TRUE, vpc_id |-> l.vpc, vpc_cidr |-> l.cidr, public_subnets |-> l.pub,
     private_subnets |-> l.priv,
     iam_role |-> IF l.iamDone THEN "bedrock-role" ELSE "",
     instance_profile |-> IF l.iamDone THEN "bedrock-profile" ELSE "",
     ec2_sg |-> l.ec2sg, alb_sg |-> l.albsg,
     vpce_id |-> l.vpce, nat_gateway_id |-> l.nat, instance_id |-> l.inst,
     alb_arn |-> l.alb, alb_dns |-> l.alb, tg_arn |-> l.tg,
     cloudfront_id |-> l.cf, cloudfront_domain |-> l.cf,
     gateway_token |-> l.token]

Finish ==
    /\ pc = "finish"
    /\ pc' = "idle"
    /\ mode' = "idle"
    /\ out' = Record(loc)
    /\ status' = "ok"
    /\ log' = Append(log, [status |-> "ok", faults |-> runFaults, created |-> created,
                            calls |-> calls, out |-> Record(loc),
                                    answers |-> loc.answers])
    /\ UNCHANGED <<aws, loc, calls, created, prevOut, runs, hist, kills, faults,
                   runFaults, enableCf, un, w>>

\* ------------------------------------------------- a concurrent creator
\* After the lookup of a step found nothing and before its create call,
\* someone else creates the resource under the same name: a security group,
\* the role, the instance profile, the load balancer.
ConcurrentCreate ==
    /\ mode = "run"
    /\ Cardinality(loc.missed) < MaxRivals
    /\ LET id == aws.nextId IN
       \/ /\ pc \in {"sg_ec2", "sg_alb"}
          /\ FindSg(aws, SgName) = {}
          /\ aws' = [aws EXCEPT !.nextId = id + 1,
                                !.sgs = @ \cup {[id |-> id, name |-> SgName,
                                                 rules |-> {},
                                                 egress |-> {DefaultEgressRule}]}]
          /\ loc' = [loc EXCEPT !.missed = @ \cup {"sg:" \o SgName}]
       \/ /\ pc = "iam"
          /\ ~aws.role
          /\ aws' = [aws EXCEPT !.role = TRUE]
          /\ loc' = [loc EXCEPT !.missed = @ \cup {"role"}]
       \/ /\ pc = "iam_profile"
          /\ ~aws.profile
          /\ aws' = [aws EXCEPT !.profile = TRUE]
          /\ loc' = [loc EXCEPT !.missed = @ \cup {"profile"}]
       \/ /\ pc = "alb"
          /\ aws.albs = {}
          /\ aws' = [aws EXCEPT !.nextId = id + 1,
                                !.albs = @ \cup {[id |-> id, state |-> "active",
                                                  subnets |-> Range(loc.pub)]}]
          /\ loc' = [loc EXCEPT !.missed = @ \cup {"alb"}]
    /\ UNCHANGED <<pc, mode, calls, created, out, prevOut, status, runs, log, hist,
                   kills, faults, runFaults, enableCf, un, w>>

\* --------------------------------------------- one step called on its own
\* The arguments run would pass to step h in the present account.
SgNamed(name) ==
    IF \E g \in aws.sgs : g.name = name
    THEN Min(Ids({g \in aws.sgs : g.name = name})) ELSE 0

ArgsOf(h, name) ==
    [h |-> h, name |-> name,
     vpc |-> IF h \in {"sg", "igw", "nat", "vpce", "alb"} THEN aws.vpc ELSE 0,
     pub |-> IF h \in {"nat", "alb"} THEN ClassifyPublic(aws) ELSE <<>>,
     priv |-> IF h \in {"vpce", "ec2"} THEN ClassifyPrivate(aws) ELSE <<>>,
     sg |-> IF h \in {"vpce", "ec2", "alb"} THEN SgNamed(name) ELSE 0,
     inst |-> IF h = "alb" /\ aws.insts # {} THEN Min(Ids(aws.insts)) ELSE 0,
     alb |-> IF h = "cf" /\ aws.albs # {} THEN Min(Ids(aws.albs)) ELSE 0]

CanCall(h, a) ==
    IF h = "iam" THEN a.name = ""
    ELSE IF h = "cf" THEN a.name = "" /\ a.alb # 0
    ELSE IF h = "igw" THEN a.name = "" /\ a.vpc # 0
    ELSE IF h = "sg" THEN a.name \in {"ec2", "alb"} /\ a.vpc # 0
    ELSE IF h = "nat" THEN a.name = "" /\ a.vpc # 0 /\ a.pub # <<>>
    ELSE IF h = "vpce" THEN a.name = "ec2" /\ a.vpc # 0 /\ a.sg # 0 /\ a.priv # <<>>
    ELSE IF h = "ec2" THEN a.name = "ec2" /\ a.sg # 0 /\ a.priv # <<>> /\ aws.profile
    ELSE IF h = "alb" THEN a.name = "alb" /\ a.vpc # 0 /\ a.sg # 0 /\ a.pub # <<>>
                           /\ a.inst # 0
    ELSE FALSE

Steps == {"sg", "igw", "nat", "vpce", "iam", "ec2", "alb", "cf"}

\* One find-or-create step is called outside run, as a test would call it,
\* on the account a first run has left.
CallStep ==
    /\ pc = "idle"
    /\ runs = 1
    /\ Len(hist) < MaxCalls
    /\ \E h \in Steps, name \in {"", "ec2", "alb"} :
         LET a == ArgsOf(h, name) IN
         /\ CanCall(h, a)
         /\ hist # <<>> => hist[Len(hist)].h = h
         /\ pc' = h
         /\ loc' = [InitLoc EXCEPT !.args = a, !.name = a.name, !.vpc = a.vpc,
                                   !.pub = a.pub, !.priv = a.priv,
                                   !.ec2sg = IF a.name = "ec2" THEN a.sg ELSE 0,
                                   !.albsg = IF a.name = "alb" THEN a.sg ELSE 0,
                                   !.inst = a.inst, !.token = runs, !.alb = a.alb]
    /\ mode' = "call"
    /\ calls' = <<>>
    /\ created' = <<>>
    /\ UNCHANGED <<aws, out, prevOut, status, runs, log, hist, kills, faults,
                   runFaults, enableCf, un, w>>

\* ------------------------------------------------------------ specification
Init ==
    /\ aws = FreshAws
    /\ pc = "idle"
    /\ mode = "idle"
    /\ loc = InitLoc
    /\ calls = <<>>
    /\ created = <<>>
    /\ out = NoOut
    /\ prevOut = NoOut
    /\ status = "none"
    /\ runs = 0
    /\ log = <<>>
    /\ hist = <<>>
    /\ kills = 0
    /\ faults = 0
    /\ runFaults = 0
    /\ enableCf \in BOOLEAN
    /\ un = InitUn
    /\ w = InitW

InstallStep ==
    \/ ReuseVpc \/ CreateVpc \/ ModifyVpcAttribute
    \/ GetOrCreateIgw \/ AttachIgw
    \/ FindOrCreatePublicRt \/ CreatePublicRoute
    \/ CreateSubnet \/ EndSubnets
    \/ GetOrCreateNat \/ CreateNatGateway \/ WaitNat
    \/ FindOrCreatePrivateRt \/ CreatePrivateRoute \/ EnsureMainRouteIgw
    \/ CreateRole \/ PutRolePolicies \/ CreateInstanceProfile \/ AttachRole
    \/ PollProfile
    \/ GetOrCreateSg \/ AuthorizeIngress \/ EnsureBedrockEndpoint \/ RenderUserData
    \/ CreateEc2 \/ WaitInstanceRunning
    \/ CreateAlb \/ CreateTargetGroup \/ RegisterTargets \/ CreateListener
    \/ CreateCloudfront \/ Finish

Next == StartRun \/ Interrupt \/ InstallStep

\* Installer.run, run again after it ended or was interrupted.
Spec == Init /\ [][Next]_vars

\* The same, and then single steps called twice in sequence.
SpecEnsure == Init /\ [][Next \/ CallStep]_vars

\* The ranges the other fabrics of the account hold when the installer is
\* first run: none, the first candidates, some candidates, the fallback.
OtherFabrics ==
    {{Candidates[k] : k \in 1..n} : n \in 0..Len(Candidates)}
      \cup {{Candidates[2]}, {Candidates[1], Candidates[2], Candidates[4]},
            {Candidates[1], FallbackCidr}}

InitFresh ==
    /\ \E cidrs \in OtherFabrics : aws = [FreshAws EXCEPT !.otherCidrs = cidrs]
    /\ pc = "idle"
    /\ mode = "idle"
    /\ loc = InitLoc
    /\ calls = <<>>
    /\ created = <<>>
    /\ out = NoOut
    /\ prevOut = NoOut
    /\ status = "none"
    /\ runs = 0
    /\ log = <<>>
    /\ hist = <<>>
    /\ kills = 0
    /\ faults = 0
    /\ runFaults = 0
    /\ enableCf \in BOOLEAN
    /\ un = InitUn
    /\ w = InitW

NextFresh == StartRun \/ InstallStep

\* The blocks _get_available_cidr collects from the listing of describe_vpcs:
\* the primary block of each fabric and its associated blocks.
ExistingBlocks_PrimaryOnly(vpcs) == {vpcs[k].primary : k \in 1..Len(vpcs)}

ExistingBlocks(vpcs) ==
    UNION {{vpcs[k].primary} \cup vpcs[k].assoc : k \in 1..Len(vpcs)}

\* The fabrics an account can hold beside the installer's: a primary block
\* among the candidates, the fallback and a block outside the list, with no
\* associated block, one, several, or some outside the list.
FabricBlocks == Range(Candidates) \cup {FallbackCidr, 172}

FabricAssocs ==
    {{}, {Candidates[2]}, {Candidates[1], Candidates[2], Candidates[3]},
     {Candidates[k] : k \in 2..Len(Candidates)}, {FallbackCidr, 172}}

Fabrics == [primary : FabricBlocks, assoc : FabricAssocs]

VpcListings == UNION {[1..n -> Fabrics] : n \in 1..MaxVpcs}

\* Someone else's fabrics are in the account before the installer is run.
ListFabrics ==
    /\ pc = "idle"
    /\ runs = 0
    /\ aws.fabrics = <<>>
    /\ \E l \in VpcListings :
         aws' = [aws EXCEPT !.fabrics = l, !.otherCidrs = ExistingBlocks(l)]
    /\ UNCHANGED <<pc, mode, loc, calls, created, out, prevOut, status, runs, log,
                   hist, kills, faults, runFaults, enableCf, un, w>>

\* _get_available_cidr at its call site, over the listings of VpcListings.
NextCidr == ListFabrics \/ StartRun \/ CreateVpc

SpecCidr == Init /\ [][NextCidr]_vars

\* The same on an account where the remote refuses some of the calls whose
\* error the installer catches and passes over.
InitRefusing ==
    /\ aws = [FreshAws EXCEPT !.refusals = MaxRefusals]
    /\ pc = "idle"
    /\ mode = "idle"
    /\ loc = InitLoc
    /\ calls = <<>>
    /\ created = <<>>
    /\ out = NoOut
    /\ prevOut = NoOut
    /\ status = "none"
    /\ runs = 0
    /\ log = <<>>
    /\ hist = <<>>
    /\ kills = 0
    /\ faults = 0
    /\ runFaults = 0
    /\ enableCf \in BOOLEAN
    /\ un = InitUn
    /\ w = InitW

SpecRefusing == InitRefusing /\ [][Next]_vars

\* The same without interruptions.
SpecRefusingRuns == InitRefusing /\ [][NextFresh]_vars

\* Installer.run on an account without a fabric whose remote fails
\* run_instances up to MaxUnready times because the instance profile has not
\* reached it.
InitLaunch ==
    /\ aws = [FreshAws EXCEPT !.refusals = MaxRefusals, !.unready = MaxUnready]
    /\ pc = "idle"
    /\ mode = "idle"
    /\ loc = InitLoc
    /\ calls = <<>>
    /\ created = <<>>
    /\ out = NoOut
    /\ prevOut = NoOut
    /\ status = "none"
    /\ runs = 0
    /\ log = <<>>
    /\ hist = <<>>
    /\ kills = 0
    /\ faults = 0
    /\ runFaults = 0
    /\ enableCf \in BOOLEAN
    /\ un = InitUn
    /\ w = InitW

StartFirstRun == runs = 0 /\ StartRun

\* The steps of a run that finds no fabric, and the launch loop.
NextLaunch ==
    \/ StartFirstRun
    \/ CreateVpc \/ ModifyVpcAttribute
    \/ GetOrCreateIgw \/ AttachIgw
    \/ FindOrCreatePublicRt \/ CreatePublicRoute
    \/ CreateSubnet \/ EndSubnets
    \/ GetOrCreateNat \/ CreateNatGateway \/ WaitNat
    \/ FindOrCreatePrivateRt \/ CreatePrivateRoute
    \/ CreateRole \/ PutRolePolicies \/ CreateInstanceProfile \/ AttachRole
    \/ PollProfile
    \/ GetOrCreateSg \/ AuthorizeIngress \/ EnsureBedrockEndpoint \/ RenderUserData
    \/ CreateEc2 \/ RetryRunInstances \/ WaitInstanceRunning
    \/ CreateAlb \/ CreateTargetGroup \/ RegisterTargets \/ CreateListener
    \/ CreateCloudfront \/ Finish

SpecLaunch == InitLaunch /\ [][NextLaunch]_vars

NextRivals == Next \/ ConcurrentCreate

\* Installer.run beside a concurrent creator.
SpecRivals == Init /\ [][NextRivals]_vars

\* Installer.run on an account that holds nothing of the project, beside
\* other fabrics, and run again after it ended.
SpecFresh == InitFresh /\ [][NextFresh]_vars

\* The subnets an operator made in the fabric that carries the project's
\* name: none of them tagged, so that _classify_subnets takes them as
\* private, over ranges the installer asks for and others.
OperatorRanges == {0, 1, 2, 10}

OperatorSubnets(ranges) ==
    {[id |-> 10 + x, tier |-> "other", az |-> 1, idx |-> x] : x \in ranges}

\* An account without the project's fabric, or with it and the operator's
\* subnets in it and with or without a public subnet of the installer.
OperatorAccounts ==
    {FreshAws}
      \cup {[FreshAws EXCEPT !.nextId = 30,
                             !.vpc = 1,
                             !.vpcCidr = Candidates[1],
                             !.rts = {[id |-> 2, main |-> TRUE, igw |-> 0, nat |-> 0,
                                       assoc |-> {}]},
                             !.sgs = {[id |-> 3, name |-> "default", rules |-> {},
                                       egress |-> {DefaultEgressRule}]},
                             !.subnets = OperatorSubnets(ranges)
                                           \cup (IF one
                                                 THEN {[id |-> 6, tier |-> "public",
                                                        az |-> 1, idx |-> 20]}
                                                 ELSE {})]
              : ranges \in (SUBSET OperatorRanges) \ {{}}, one \in BOOLEAN}

InitOperator ==
    /\ aws \in {[a EXCEPT !.refusals = MaxRefusals] : a \in OperatorAccounts}
    /\ pc = "idle"
    /\ mode = "idle"
    /\ loc = InitLoc
    /\ calls = <<>>
    /\ created = <<>>
    /\ out = NoOut
    /\ prevOut = NoOut
    /\ status = "none"
    /\ runs = 0
    /\ log = <<>>
    /\ hist = <<>>
    /\ kills = 0
    /\ faults = 0
    /\ runFaults = 0
    /\ enableCf = TRUE
    /\ un = InitUn
    /\ w = InitW

SpecOperator == InitOperator /\ [][NextFresh]_vars

\* ================================================================ wait loops
WaitKinds == {"nat", "subnet", "iam", "cf_deployed", "endpoints_deleted", "nat_deleted"}

\* What a wait loop returns when a poll observes the awaited state.
OnSeen(kind) == IF kind = "cf_deployed" THEN "true" ELSE "return"

\* What the caller of the wait does with its outcome: an exception leaves
\* the caller, False makes delete_cloudfront skip the distribution, and a
\* plain return is followed by the caller's next statement.
CallerOn(kind, result) ==
    IF result = "raise" THEN "stops"
    ELSE IF result = "false" THEN "skips"
    ELSE "proceeds"

\* A wait loop is entered.
WaitStart ==
    /\ pc = "idle"
    /\ w.kind = ""
    /\ \E kind \in WaitKinds : w' = [InitW EXCEPT !.kind = kind]
    /\ UNCHANGED <<aws, pc, mode, loc, calls, created, out, prevOut, status, runs,
                   log, hist, kills, faults, runFaults, enableCf, un>>

\* Whether the read of attempt (0-based) ends the wait: it shows the awaited
\* state and, in the propagation poll of _ensure_iam, is attempt 5 or later.
Accepts_AnyAttempt(kind, obs, attempt) == obs

Accepts(kind, obs, attempt) == obs /\ (kind = "iam" => attempt >= IamMinAttempt)

\* One iteration of a wait loop: the poll, the test, the sleep.  A read of
\* the propagation poll of _ensure_iam can fail, which the loop passes over.
WaitPoll ==
    /\ w.kind # ""
    /\ w.result = ""
    /\ \E obs \in BOOLEAN, failed \in BOOLEAN :
         LET n == w.polls + 1
             accept == Accepts(w.kind, obs, n - 1)
             result == IF accept THEN OnSeen(w.kind)
                       ELSE IF n = WaitBound(w.kind) THEN OnExhausted(w.kind)
                       ELSE ""
         IN /\ failed => (w.kind = "iam" /\ ~obs)
            /\ w' = [w EXCEPT !.polls = n, !.seen = accept, !.result = result,
                              !.caller = IF result = "" THEN ""
                                         ELSE CallerOn(w.kind, result),
                              !.last = IF failed THEN "failed"
                                       ELSE IF obs THEN "seen" ELSE "unseen"]
    /\ UNCHANGED <<aws, pc, mode, loc, calls, created, out, prevOut, status, runs,
                   log, hist, kills, faults, runFaults, enableCf, un>>

NextWait == WaitStart \/ WaitPoll

\* Each wait loop, poll by poll.
SpecWait == Init /\ [][NextWait]_vars

\* ================================================================ Uninstaller
\* ------------------------------------------------- the account it is run on
NatOptions == {"none", "available", "deleting", "two"}

EniOptions == {"none", "idle", "alb", "foreign"}

\* An account the installer has converged (the fabric with its four subnets,
\* gateways, route tables and groups), with or without the endpoint and the
\* instance, load balancer and distribution, and with what an operator or an
\* earlier uninstall left: a NAT gateway already deleting, a failed NAT
\* gateway beside the live one, an idle or attached network interface, a
\* security group made outside the installer.
Account(nat, eni, foreign, ep, edge) ==
    [nextId |-> 30,
     vpc |-> 1,
     vpcCidr |-> Candidates[1],
     otherCidrs |-> {},
     fabrics |-> <<>>,
     refusals |-> 0, unready |-> 0, reorders |-> 0, scope |-> NoScope,
     rts |-> {[id |-> 2, main |-> TRUE, igw |-> 4, nat |-> 0, assoc |-> {}],
              [id |-> 5, main |-> FALSE, igw |-> 4, nat |-> 0, assoc |-> {6, 7}],
              [id |-> 10, main |-> FALSE, igw |-> 0,
               nat |-> IF nat = "none" THEN 0 ELSE IF nat = "two" THEN 24 ELSE 9,
               assoc |-> {11, 12}]},
     sgs |-> {[id |-> 3, name |-> "default", rules |-> {},
               egress |-> {DefaultEgressRule}],
              [id |-> 13, name |-> "ec2", rules |-> {"ec2:gateway:alb-sg", "ec2:443:vpc"},
               egress |-> {DefaultEgressRule}],
              [id |-> 14, name |-> "alb", rules |-> {"alb:80:world"},
               egress |-> {DefaultEgressRule}]}
             \cup (IF foreign
                   THEN {[id |-> 25, name |-> "foreign", rules |-> {},
                          egress |-> {DefaultEgressRule,
                                      [proto |-> "tcp", ranges |-> <<"0.0.0.0/0">>],
                                      [proto |-> "-1",
                                       ranges |-> <<"10.0.0.0/8", "0.0.0.0/0">>]}]}
                   ELSE {}),
     igws |-> {[id |-> 4, attached |-> TRUE]},
     subnets |-> {[id |-> 6, tier |-> "public", az |-> 1, idx |-> 0],
                  [id |-> 7, tier |-> "public", az |-> 2, idx |-> 1],
                  [id |-> 11, tier |-> "private", az |-> 1, idx |-> 10],
                  [id |-> 12, tier |-> "private", az |-> 2, idx |-> 11]},
     eips |-> IF nat = "none" THEN {} ELSE IF nat = "two" THEN {8, 23} ELSE {8},
     nats |-> IF nat = "none" THEN {}
              ELSE IF nat = "two"
              THEN {[id |-> 9, state |-> "failed", eip |-> 8, named |-> TRUE, subnet |-> 6],
                    [id |-> 24, state |-> "available", eip |-> 23, named |-> TRUE,
                     subnet |-> 6]}
              ELSE {[id |-> 9, state |-> nat, eip |-> 8, named |-> TRUE, subnet |-> 6]},
     eps |-> IF ep THEN {[id |-> 15, state |-> "available", subnets |-> {11, 12}]}
             ELSE {},
     role |-> TRUE,
     rolePolicies |-> {"BedrockAccess", "AmazonSSMManagedInstanceCore"},
     profile |-> TRUE,
     profileRoles |-> {"bedrock-role"},
     insts |-> IF edge THEN {[id |-> 16, state |-> "running", token |-> 1, subnet |-> 11]}
               ELSE {},
     albs |-> IF edge THEN {[id |-> 17, state |-> "active", subnets |-> {6, 7}]}
              ELSE {},
     tgs |-> IF edge THEN {[id |-> 18, targets |-> {16}]} ELSE {},
     listeners |-> IF edge THEN {[id |-> 19, alb |-> 17, tg |-> 18]} ELSE {},
     cfs |-> IF edge THEN {[id |-> 20, enabled |-> TRUE, status |-> "Deployed",
                            origin |-> 17]}
             ELSE {},
     enis |-> IF eni = "idle"
              THEN {[id |-> 26, status |-> "available", subnet |-> 11, sg |-> 13,
                     owner |-> "none"]}
              ELSE IF eni = "alb"
              THEN {[id |-> 26, status |-> "in-use", subnet |-> 6, sg |-> 14,
                     owner |-> "alb"]}
              ELSE IF eni = "foreign"
              THEN {[id |-> 26, status |-> "in-use", subnet |-> 12,
                     sg |-> IF foreign THEN 25 ELSE 13, owner |-> "foreign"]}
              ELSE {},
     dns |-> TRUE]

Accounts ==
    {FreshAws}
      \cup {Account(c[1], c[2], c[3], c[4], c[5]) :
              c \in {d \in NatOptions \X EniOptions \X BOOLEAN \X BOOLEAN \X BOOLEAN :
                       /\ d[2] = "alb" => d[5]
                       /\ d[3] => d[2] \in {"none", "foreign"}
                       /\ d[4] = d[5]}}

\* ------------------------------------------------------- what the remote does
\* A subnet is deleted unless something still sits in it.
SubnetFree(a, s) ==
    /\ \A e \in a.enis : e.subnet # s
    /\ \A n \in a.nats : n.state # "deleted" => n.subnet # s
    /\ \A e \in a.eps : e.state # "deleted" => s \notin e.subnets
    /\ \A i \in a.insts : i.subnet # s

\* The group an inbound rule names as its source; "" when it names a range.
RuleSource(rule) ==
    IF rule \in {"ec2:gateway:alb-sg", "foreign:any:alb-sg"} THEN "alb"
    ELSE IF rule \in {"alb:any:ec2-sg", "foreign:any:ec2-sg", "ec2:any:ec2-sg"}
    THEN "ec2"
    ELSE IF rule \in {"ec2:any:foreign-sg", "alb:any:foreign-sg"} THEN "foreign"
    ELSE ""

\* A security group is deleted unless a network interface still uses it or
\* an inbound rule of another group names it as its source.
SgFree(a, g) ==
    /\ \A e \in a.enis : e.sg # g
    /\ \A x \in a.sgs : \A h \in a.sgs :
         x.id = g /\ h.id # g => \A r \in h.rules : RuleSource(r) # x.name

\* What makes delete_vpc answer DependencyViolation.
VpcDependencies(a) ==
    Ids(a.subnets)
      \cup Ids({g \in a.sgs : g.name # "default"})
      \cup Ids(a.enis)
      \cup Ids({e \in a.eps : e.state # "deleted"})
      \cup Ids({n \in a.nats : n.state # "deleted"})
      \cup Ids({g \in a.igws : g.attached})
      \cup Ids({rt \in a.rts : ~rt.main})

\* While the uninstaller sleeps between two rounds or attempts, the deletions
\* in progress end: a NAT gateway or an endpoint that is deleting is gone, a
\* load balancer that is deleting is gone with its listeners, the interface
\* of a deleted load balancer is gone.
Settled(a) ==
    LET albs == {b \in a.albs : b.state # "deleting"} IN
    [a EXCEPT !.nats = {IF n.state = "deleting" THEN [n EXCEPT !.state = "deleted"]
                        ELSE n : n \in @},
              !.eps = {e \in @ : e.state # "deleting"},
              !.albs = albs,
              !.listeners = {l \in @ : l.alb \in Ids(albs)},
              !.enis = {e \in @ : ~(e.owner = "alb" /\ albs = {})}]

RemoteSettles ==
    /\ mode = "uninstall"
    /\ pc \in {"u_subnets", "u_sgs", "u_vpc_del"}
    /\ Settled(aws) # aws
    /\ aws' = Settled(aws)
    /\ UNCHANGED <<pc, mode, loc, calls, created, out, prevOut, status, runs, log,
                   hist, kills, faults, runFaults, enableCf, un, w>>

\* Someone else removes the emptied fabric while the uninstaller is at it.
VpcRemovedElsewhere ==
    /\ mode = "uninstall"
    /\ pc = "u_vpc_del"
    /\ aws.vpc # 0
    /\ VpcDependencies(aws) = {}
    /\ aws' = [aws EXCEPT !.vpc = 0, !.vpcCidr = 0, !.rts = {}, !.sgs = {}]
    /\ UNCHANGED <<pc, mode, loc, calls, created, out, prevOut, status, runs, log,
                   hist, kills, faults, runFaults, enableCf, un, w>>

\* Nothing the uninstaller looks for is in the account.
FullyDeleted(a) ==
    /\ a.vpc = 0
    /\ a.cfs = {}
    /\ a.albs = {}
    /\ a.tgs = {}
    /\ a.insts = {}
    /\ ~a.profile
    /\ ~a.role

\* What the stage at program point p has listed and someone else can remove
\* before the stage's delete call: a distribution, a target group, an
\* instance, a NAT gateway, a subnet, a security group.
VanishCandidates(a, p) ==
    IF p \in {"u_cf_del", "u_cf_retry"} THEN Ids(a.cfs)
    ELSE IF p = "u_tg" THEN Ids({t \in a.tgs : \A l \in a.listeners : l.tg # t.id})
    ELSE IF p = "u_ec2"
    THEN Ids({i \in a.insts : i.state \in {"pending", "running", "stopping", "stopped"}})
    ELSE IF p = "u_nat" THEN Ids({n \in a.nats : n.state \notin {"deleted", "deleting"}})
    ELSE IF p = "u_subnets" THEN Ids({s \in a.subnets : SubnetFree(a, s.id)})
    ELSE IF p = "u_sgs"
    THEN Ids({g \in a.sgs : g.name # "default" /\ SgFree(a, g.id)})
    ELSE {}

\* The account without resource id; a NAT gateway stays listed as deleted.
Without(a, id) ==
    [a EXCEPT !.cfs = {d \in @ : d.id # id},
              !.tgs = {t \in @ : t.id # id},
              !.insts = {i \in @ : i.id # id},
              !.nats = {IF n.id = id THEN [n EXCEPT !.state = "deleted"] ELSE n
                        : n \in @},
              !.subnets = {x \in @ : x.id # id},
              !.rts = {[rt EXCEPT !.assoc = @ \ {id}] : rt \in @},
              !.sgs = {g \in @ : g.id # id}]

\* Between the describe call of a stage and its delete call, a listed
\* resource is removed by someone else.
ResourceVanishes ==
    /\ mode = "uninstall"
    /\ un.vanishes < MaxVanish
    /\ un.stale = {}
    /\ \E id \in VanishCandidates(aws, pc) :
         /\ aws' = Without(aws, id)
         /\ un' = [un EXCEPT !.stale = {id}, !.vanishes = @ + 1]
    /\ UNCHANGED <<pc, mode, loc, calls, created, out, prevOut, status, runs, log,
                   hist, kills, faults, runFaults, enableCf, w>>

\* -------------------------------------------------------------- control flow
\* Uninstaller.run and _delete_single_vpc: the stages in source order.
UnStageAfter_GroupsFirst(s) ==
    IF s = "u_cf" THEN "u_alb"
    ELSE IF s = "u_alb" THEN "u_tg"
    ELSE IF s = "u_tg" THEN "u_ec2"
    ELSE IF s = "u_ec2" THEN "u_vpc"
    ELSE IF s = "u_vpc" THEN "u_sgs"
    ELSE IF s = "u_sgs" THEN "u_ep"
    ELSE IF s = "u_ep" THEN "u_nat"
    ELSE IF s = "u_nat" THEN "u_nat_wait"
    ELSE IF s = "u_nat_wait" THEN "u_eni"
    ELSE IF s = "u_eni" THEN "u_subnets"
    ELSE IF s = "u_subnets" THEN "u_rts"
    ELSE IF s = "u_rts" THEN "u_igw"
    ELSE IF s = "u_igw" THEN "u_eip"
    ELSE IF s = "u_eip" THEN "u_vpc_del"
    ELSE IF s = "u_vpc_del" THEN "u_iam"
    ELSE IF s = "u_iam" THEN "u_role"
    ELSE IF s = "u_role" THEN "u_cf_retry"
    ELSE "u_done"

UnStageAfter(s) ==
    IF s = "u_cf" THEN "u_alb"
    ELSE IF s = "u_alb" THEN "u_tg"
    ELSE IF s = "u_tg" THEN "u_ec2"
    ELSE IF s = "u_ec2" THEN "u_vpc"
    ELSE IF s = "u_vpc" THEN "u_ep"
    ELSE IF s = "u_ep" THEN "u_nat"
    ELSE IF s = "u_nat" THEN "u_nat_wait"
    ELSE IF s = "u_nat_wait" THEN "u_eni"
    ELSE IF s = "u_eni" THEN "u_subnets"
    ELSE IF s = "u_subnets" THEN "u_rts"
    ELSE IF s = "u_rts" THEN "u_igw"
    ELSE IF s = "u_igw" THEN "u_eip"
    ELSE IF s = "u_eip" THEN "u_sgs"
    ELSE IF s = "u_sgs" THEN "u_vpc_del"
    ELSE IF s = "u_vpc_del" THEN "u_iam"
    ELSE IF s = "u_iam" THEN "u_role"
    ELSE IF s = "u_role" THEN "u_cf_retry"
    ELSE "u_done"

\* A step of the uninstaller.  f is 1 when the remote refused a call.
UStep(a2, u2, cs, nextpc, f) ==
    /\ aws' = a2
    /\ un' = u2
    /\ calls' = calls \o cs
    /\ pc' = nextpc
    /\ faults' = faults + f
    /\ runFaults' = runFaults + f
    /\ UNCHANGED <<mode, loc, created, out, prevOut, status, runs, log, hist, kills,
                   enableCf, w>>

Repeat(n, c) == [k \in 1..n |-> c]

Waited(u, name) == [u EXCEPT !.waited = @ \cup {name}]

Touched(u, ids) == [u EXCEPT !.touched = @ \cup ids]

\* logger.warning naming the identifiers ids (or carrying the error of the
\* call made on them).
Warned(u, ids) == [u EXCEPT !.warned = @ \cup ids]

\* The delete call on the identifiers ids stayed refused and is not retried.
Exhausted(u, ids) == [u EXCEPT !.exhausted = @ \cup ids]

\* The delete call on the stale identifiers answered "not found".
NotFound(u) == [u EXCEPT !.notFound = @ \cup un.stale, !.stale = {}]

\* An exception leaves Uninstaller.run.
UnAbort(err, u2, cs, f) ==
    /\ aws' = aws
    /\ un' = u2
    /\ calls' = calls \o cs
    /\ pc' = "idle"
    /\ mode' = "idle"
    /\ status' = err
    /\ faults' = faults + f
    /\ runFaults' = runFaults + f
    /\ UNCHANGED <<loc, created, out, prevOut, runs, log, hist, kills, enableCf, w>>

UnStart ==
    /\ pc = "idle"
    /\ ~un.started
    /\ pc' = "u_cf"
    /\ mode' = "uninstall"
    /\ un' = [InitUn EXCEPT !.started = TRUE, !.runs = 1,
                             !.clean = FullyDeleted(aws), !.opLog = un.opLog]
    /\ calls' = <<>>
    /\ status' = "running"
    /\ UNCHANGED <<aws, loc, created, out, prevOut, runs, log, hist, kills, faults,
                   runFaults, enableCf, w>>

\* Uninstaller.run is run again after it ended.
UnStartAgain ==
    /\ pc = "idle"
    /\ un.started
    /\ un.runs < MaxUnRuns
    /\ pc' = "u_cf"
    /\ mode' = "uninstall"
    /\ un' = [InitUn EXCEPT !.started = TRUE, !.runs = un.runs + 1,
                             !.clean = FullyDeleted(aws), !.vanishes = un.vanishes,
                             !.opLog = un.opLog]
    /\ calls' = <<>>
    /\ status' = "running"
    /\ UNCHANGED <<aws, loc, created, out, prevOut, runs, log, hist, kills, faults,
                   runFaults, enableCf, w>>

\* ----------------------------------------------------------------- CloudFront
\* delete_cloudfront up to the wait: an enabled distribution is disabled.
UnDisableCloudfront ==
    /\ pc = "u_cf"
    /\ IF aws.cfs = {}
       THEN UStep(aws, un, <<>>, UnStageAfter("u_cf"), 0)
       ELSE IF \E d \in aws.cfs : d.enabled
       THEN \E ok \in BOOLEAN :
              IF ok
              THEN UStep([aws EXCEPT !.cfs = {[d EXCEPT !.enabled = FALSE,
                                                       !.status = "InProgress"]
                                              : d \in @}],
                         un, <<"update_distribution">>, "u_cf_wait", 0)
              ELSE /\ faults < MaxUnFaults
                   /\ UStep(aws, Warned(un, Ids(aws.cfs)), <<"update_distribution">>,
                            UnStageAfter("u_cf"), 1)
       ELSE UStep(aws, un, <<>>, "u_cf_del", 0)

\* _wait_cf_deployed as delete_cloudfront sees it.
UnWaitCfDeployed ==
    /\ pc = "u_cf_wait"
    /\ \E ready \in BOOLEAN :
         IF ready
         THEN UStep([aws EXCEPT !.cfs = {[d EXCEPT !.status = "Deployed"] : d \in @}],
                    [Waited(un, "cf") EXCEPT !.cfObserved = @ \cup Ids(aws.cfs)],
                    <<>>, "u_cf_del", 0)
         ELSE UStep(aws, Warned(Waited(un, "cf"), Ids(aws.cfs)), <<>>,
                    IF CallerOn("cf_deployed", OnExhausted("cf_deployed")) = "proceeds"
                    THEN "u_cf_del" ELSE UnStageAfter("u_cf"), 0)

\* delete_distribution: refused as DistributionNotDisabled while the
\* distribution is enabled or in progress, NoSuchDistribution when it is gone;
\* both are logged as information.
UnDeleteCloudfront ==
    /\ pc = "u_cf_del"
    /\ LET kept == {d \in aws.cfs : d.enabled \/ d.status # "Deployed"} IN
       UStep([aws EXCEPT !.cfs = kept],
             [Exhausted(NotFound(Touched(un, Ids(aws.cfs) \cup un.stale)), Ids(kept))
                EXCEPT !.cfTried = @ \cup Ids(aws.cfs) \cup un.stale],
             Repeat(Cardinality(aws.cfs) + Cardinality(un.stale), "delete_distribution"),
             UnStageAfter("u_cf"), 0)

\* -------------------------------------------------------------- load balancer
\* delete_alb_and_target_group: the listeners of the load balancer, inside
\* one try: a refused delete_listener is logged and ends the loop.
UnDeleteListeners ==
    /\ pc = "u_alb"
    /\ IF aws.albs = {}
       THEN UStep(aws, un, <<>>, UnStageAfter("u_alb"), 0)
       ELSE \E ok \in BOOLEAN :
              IF ok
              THEN UStep([aws EXCEPT !.listeners = {}], Touched(un, Ids(aws.listeners)),
                         Repeat(Cardinality(aws.listeners), "delete_listener"),
                         "u_alb_del", 0)
              ELSE /\ aws.listeners # {}
                   /\ faults < MaxUnFaults
                   /\ UStep(aws,
                            Warned(Touched(un, {Min(Ids(aws.listeners))}),
                                   {Min(Ids(aws.listeners))}),
                            <<"delete_listener">>, "u_alb_del", 1)

\* delete_load_balancer and the load_balancers_deleted waiter: the load
\* balancer is deleted with its listeners, or the call is refused, or the
\* waiter gives up while the deletion is in progress; both failures are logged.
UnDeleteLoadBalancer ==
    /\ pc = "u_alb_del"
    /\ \E r \in {"deleted", "refused", "slow"} :
         LET u1 == [Touched(un, Ids(aws.albs)) EXCEPT !.lbListeners = Ids(aws.listeners)]
         IN IF r = "deleted"
            THEN UStep([aws EXCEPT !.albs = {}, !.listeners = {}], Waited(u1, "alb"),
                       <<"delete_load_balancer">>, UnStageAfter("u_alb"), 0)
            ELSE IF r = "refused"
            THEN /\ faults < MaxUnFaults
                 /\ UStep(aws, Warned(u1, Ids(aws.albs)),
                          <<"delete_load_balancer">>, UnStageAfter("u_alb"), 1)
            ELSE /\ faults < MaxUnFaults
                 /\ UStep([aws EXCEPT !.albs = {[b EXCEPT !.state = "deleting"] : b \in @}],
                          Warned(u1, Ids(aws.albs)),
                          <<"delete_load_balancer">>, UnStageAfter("u_alb"), 1)

\* The target group: ResourceInUse while a listener forwards to it and
\* TargetGroupNotFound when it is gone, neither of them logged.
UnDeleteTargetGroups ==
    /\ pc = "u_tg"
    /\ LET inUse == {t \in aws.tgs : \E l \in aws.listeners : l.tg = t.id} IN
       UStep([aws EXCEPT !.tgs = inUse],
             [Exhausted(NotFound(Touched(un, Ids(aws.tgs) \cup un.stale)), Ids(inUse))
                EXCEPT !.tgBalancers = IF aws.tgs = {} /\ un.stale = {} THEN {}
                                       ELSE Ids(aws.albs)],
             Repeat(Cardinality(aws.tgs) + Cardinality(un.stale), "delete_target_group"),
             UnStageAfter("u_tg"), 0)

\* ------------------------------------------------------------------ instances
\* terminate_ec2_instances up to the waiter: terminate_instances is outside
\* any try, and answers InvalidInstanceID.NotFound for a listed instance
\* that is gone.
UnTerminateInstances ==
    /\ pc = "u_ec2"
    /\ LET live == {i \in aws.insts
                      : i.state \in {"pending", "running", "stopping", "stopped"}}
       IN IF un.stale # {}
          THEN UnAbort("ClientError", NotFound(Touched(un, Ids(live) \cup un.stale)),
                       <<"terminate_instances">>, 0)
          ELSE IF live = {}
          THEN UStep(aws, un, <<>>, UnStageAfter("u_ec2"), 0)
          ELSE UStep([aws EXCEPT !.insts = {IF i \in live
                                            THEN [i EXCEPT !.state = "shutting-down"]
                                            ELSE i : i \in @}],
                     Touched(un, Ids(live)), <<"terminate_instances">>, "u_ec2_wait", 0)

\* The instance_terminated waiter; its WaiterError is not caught.
UnWaitTerminated ==
    /\ pc = "u_ec2_wait"
    /\ \E ready \in BOOLEAN :
         IF ready
         THEN UStep([aws EXCEPT !.insts = {i \in @ : i.state # "shutting-down"}],
                    Waited(un, "ec2"), <<>>, UnStageAfter("u_ec2"), 0)
         ELSE /\ faults < MaxUnFaults
              /\ UnAbort("WaiterError", un, <<>>, 1)

\* --------------------------------------------------------------------- fabric
\* delete_vpcs_and_networking
UnFindVpc ==
    /\ pc = "u_vpc"
    /\ UStep(aws, un, <<>>, IF aws.vpc = 0 THEN "u_iam" ELSE UnStageAfter("u_vpc"), 0)

\* _delete_single_vpc 1): the endpoints not yet deleted, in one call.
UnDeleteEndpoints ==
    /\ pc = "u_ep"
    /\ LET eps == {e \in aws.eps : e.state # "deleted"} IN
       IF eps = {}
       THEN UStep(aws, un, <<>>, UnStageAfter("u_ep"), 0)
       ELSE \E ok \in BOOLEAN :
              IF ok
              THEN UStep([aws EXCEPT !.eps = {[e EXCEPT !.state = "deleting"] : e \in @}],
                         Touched(un, Ids(eps)), <<"delete_vpc_endpoints">>, "u_ep_wait", 0)
              ELSE /\ faults < MaxUnFaults
                   /\ UStep(aws, Warned(Touched(un, Ids(eps)), Ids(eps)),
                            <<"delete_vpc_endpoints">>, UnStageAfter("u_ep"), 1)

\* _wait_for_vpc_endpoints_deleted as its caller sees it.
UnWaitEndpointsDeleted ==
    /\ pc = "u_ep_wait"
    /\ \E ready \in BOOLEAN :
         IF ready
         THEN UStep([aws EXCEPT !.eps = {}], Waited(un, "ep"), <<>>,
                    UnStageAfter("u_ep"), 0)
         ELSE /\ CallerOn("endpoints_deleted", OnExhausted("endpoints_deleted"))
                   = "proceeds"
              /\ UStep(aws, Warned(Waited(un, "ep"), {aws.vpc}), <<>>,
                       UnStageAfter("u_ep"), 0)

RECURSIVE NatLoopCalls(_, _)
\* The calls of the NAT loop for the gateways ids: the routes to each, then it.
NatLoopCalls(a, ids) ==
    IF ids = <<>> THEN <<>>
    ELSE Repeat(Cardinality({rt \in a.rts : rt.nat = Head(ids)}), "delete_route")
           \o <<"delete_nat_gateway">>
           \o NatLoopCalls(a, Tail(ids))

\* _delete_single_vpc 2): the loop over the NAT gateways listed as not
\* deleted or deleting, inside one try: the first delete_nat_gateway that
\* fails, refused or answered "not found", is logged and ends the loop.
UnDeleteNats ==
    /\ pc = "u_nat"
    /\ LET targets == SeqOf(Ids({n \in aws.nats : n.state \notin {"deleted", "deleting"}})
                              \cup un.stale)
           gone == {k \in 1..Len(targets) : targets[k] \in un.stale}
           reach == IF gone = {} THEN Len(targets) ELSE Min(gone) - 1
       IN \E ok \in 0..reach :
            LET tried == SubSeq(targets, 1, Min({ok + 1, Len(targets)}))
                done == Range(SubSeq(targets, 1, ok))
                failed == IF ok < Len(targets) THEN {targets[ok + 1]} ELSE {}
                f == IF failed \ un.stale # {} THEN 1 ELSE 0
            IN /\ f = 1 => faults < MaxUnFaults
               /\ UStep([aws EXCEPT
                           !.nats = {IF n.id \in done THEN [n EXCEPT !.state = "deleting"]
                                     ELSE n : n \in @},
                           !.rts = {IF rt.nat \in Range(tried) THEN [rt EXCEPT !.nat = 0]
                                    ELSE rt : rt \in @}],
                        [un EXCEPT !.touched = @ \cup Range(tried),
                                   !.natEips = @ \cup {n.eip : n \in {m \in aws.nats
                                                          : m.id \in Range(tried)}},
                                   !.warned = @ \cup failed,
                                   !.notFound = @ \cup (failed \cap un.stale),
                                   !.stale = {}],
                        NatLoopCalls(aws, tried), UnStageAfter("u_nat"), f)

\* _wait_for_nat_deleted as its caller sees it: it returns when no gateway
\* is alive, and when its bound is used up.
UnWaitNatDeleted ==
    /\ pc = "u_nat_wait"
    /\ LET alive == {n \in aws.nats : n.state \notin {"deleted", "failed"}} IN
       \E ready \in BOOLEAN :
         IF ready
         THEN /\ \A n \in alive : n.state = "deleting"
              /\ UStep([aws EXCEPT !.nats = {IF n \in alive
                                             THEN [n EXCEPT !.state = "deleted"]
                                             ELSE n : n \in @}],
                       Waited(un, "nat"), <<>>, UnStageAfter("u_nat_wait"), 0)
         ELSE /\ alive # {}
              /\ CallerOn("nat_deleted", OnExhausted("nat_deleted")) = "proceeds"
              /\ UStep(aws, Warned(Waited(un, "nat"), {aws.vpc}), <<>>,
                       UnStageAfter("u_nat_wait"), 0)

\* _delete_single_vpc 3): the interfaces whose Status is available.
EniTargets(a) == {e \in a.enis : e.status = "available"}

UnDeleteEnis ==
    /\ pc = "u_eni"
    /\ LET idle == EniTargets(aws) IN
       \E ok \in BOOLEAN :
         IF ok
         THEN UStep([aws EXCEPT !.enis = @ \ idle], Touched(un, Ids(idle)),
                    Repeat(Cardinality(idle), "delete_network_interface"),
                    UnStageAfter("u_eni"), 0)
         ELSE /\ idle # {}
              /\ faults < MaxUnFaults
              /\ UStep(aws, Warned(Touched(un, Ids(idle)), Ids(idle)),
                       Repeat(Cardinality(idle), "delete_network_interface"),
                       UnStageAfter("u_eni"), 1)

\* Whether the round with index round (0-based) is the last one of a retry
\* loop: nothing was blocked in it, or it is round max_rounds - 1.
LastRound_UntilFree(stuck, round) == stuck = {}

LastRound_Once(stuck, round) == TRUE

LastRound(stuck, round) == stuck = {} \/ round + 1 = MaxRounds

\* What a round of a retry loop did: the resources it listed, those whose
\* delete call failed, and whether it slept before the next round.
RoundEntry(loop, round, listed, failed) ==
    [loop |-> loop, round |-> round, listed |-> listed, failed |-> failed,
     slept |-> listed # {} /\ failed # {} /\ round < MaxRounds - 1]

\* One round of _delete_subnets_with_retry: every ClientError of
\* delete_subnet counts the subnet as blocked and is logged as information.
UnSubnetRound ==
    /\ pc = "u_subnets"
    /\ LET free == {s \in aws.subnets : SubnetFree(aws, s.id)}
           blocked == aws.subnets \ free
           stuck == Ids(blocked) \cup un.stale
           last == LastRound(stuck, un.round)
       IN UStep([aws EXCEPT !.subnets = blocked,
                            !.rts = {[rt EXCEPT !.assoc = @ \ Ids(free)] : rt \in @}],
                [NotFound(Touched(un, Ids(aws.subnets) \cup un.stale))
                   EXCEPT !.round = IF last THEN 0 ELSE @ + 1,
                          !.blocked = @ \cup stuck,
                          !.exhausted = @ \cup (IF un.round + 1 = MaxRounds
                                                THEN Ids(blocked) ELSE {}),
                          !.roundLog = Append(@, RoundEntry("subnets", un.round,
                                                   Ids(aws.subnets) \cup un.stale,
                                                   stuck))],
                Repeat(Cardinality(aws.subnets) + Cardinality(un.stale), "delete_subnet"),
                IF last THEN UnStageAfter("u_subnets") ELSE "u_subnets", 0)

\* _delete_single_vpc 6): every route table but the main one.
UnDeleteRouteTables ==
    /\ pc = "u_rts"
    /\ LET rts == {rt \in aws.rts : ~rt.main}
           cs == Repeat(Cardinality(UNION {rt.assoc : rt \in rts}),
                        "disassociate_route_table")
                   \o Repeat(Cardinality(rts), "delete_route_table")
       IN \E ok \in BOOLEAN :
            IF ok
            THEN UStep([aws EXCEPT !.rts = @ \ rts], Touched(un, Ids(rts)), cs,
                       UnStageAfter("u_rts"), 0)
            ELSE /\ rts # {}
                 /\ faults < MaxUnFaults
                 /\ UStep([aws EXCEPT !.rts = {[rt EXCEPT !.assoc = {}] : rt \in @}],
                          Touched(un, Ids(rts)), cs, UnStageAfter("u_rts"), 1)

\* _delete_single_vpc 7): the attached internet gateway is detached, which
\* the remote refuses while a NAT gateway holds an address, and deleted; a
\* refused detach is passed over, a refused delete is logged.
UnDeleteIgws ==
    /\ pc = "u_igw"
    /\ LET igws == {g \in aws.igws : g.attached}
           free == \A n \in aws.nats : n.state \in {"deleted", "failed"}
       IN UStep([aws EXCEPT !.igws = IF free THEN @ \ igws ELSE @,
                            !.rts = IF free THEN {[rt EXCEPT !.igw = 0] : rt \in @}
                                    ELSE @],
                Warned(Touched(un, Ids(igws)), IF free THEN {} ELSE Ids(igws)),
                IF igws = {} THEN <<>>
                ELSE <<"detach_internet_gateway", "delete_internet_gateway">>,
                UnStageAfter("u_igw"), 0)

\* _delete_single_vpc 8): the addresses of the NAT gateways of step 2; one
\* still held by a gateway is not released.
UnReleaseEips ==
    /\ pc = "u_eip"
    /\ LET held == {n.eip : n \in {m \in aws.nats : m.state # "deleted"}} IN
       UStep([aws EXCEPT !.eips = @ \ (un.natEips \ held)],
             Warned(un, un.natEips \cap held),
             Repeat(Cardinality(un.natEips), "release_address"),
             UnStageAfter("u_eip"), 0)

\* Whether an outbound rule is the default allow-all one, which is left in
\* place.
IsDefaultEgress_None(r) == FALSE

IsDefaultEgress(r) ==
    r.proto = "-1" /\ Len(r.ranges) = 1 /\ r.ranges[1] = "0.0.0.0/0"

EgressToRevoke(g) == {r \in g.egress : ~IsDefaultEgress(r)}

SgOp(op, g, round, issued, ok) ==
    [op |-> op, sg |-> g.id, round |-> round, ingress |-> g.rules,
     egress |-> IF op = "revoke_security_group_egress" THEN EgressToRevoke(g)
                ELSE g.egress,
     issued |-> issued, ok |-> ok]

\* The calls a round makes on one listed group: the inbound rules when it
\* has any, the outbound rules that are not the default one when it has any,
\* then the group; revoked tells whether the remote accepted the revokes.
SgOps(g, round, revoked, deleted) ==
    <<SgOp("revoke_security_group_ingress", g, round, g.rules # {}, revoked),
      SgOp("revoke_security_group_egress", g, round, EgressToRevoke(g) # {}, revoked),
      SgOp("delete_security_group", g, round, TRUE, deleted)>>

\* The calls of a round on the listed groups, in the order of the listing.
SgRoundOps(ids, groups, round, revoked, free) ==
    LET issued(o) == o.issued IN
    SelectSeq([k \in 1..(3 * Len(ids)) |->
                 SgOps(CHOOSE x \in groups : x.id = ids[((k - 1) \div 3) + 1],
                       round, revoked,
                       ids[((k - 1) \div 3) + 1] \in Ids(free))[((k - 1) % 3) + 1]],
              issued)

\* The remote after the calls of a round on one listed group, the inbound
\* rules left in place.
SgVisit_KeepIngress(a, id, revoked) ==
    LET a1 == [a EXCEPT !.sgs = {IF g.id = id /\ revoked
                                 THEN [g EXCEPT !.egress = @ \ EgressToRevoke(g)]
                                 ELSE g : g \in @}]
    IN IF SgFree(a1, id) THEN [a1 EXCEPT !.sgs = {g \in @ : g.id # id}] ELSE a1

\* The remote after the calls of a round on one listed group: the rules are
\* revoked when the remote accepts the revokes, then the group is deleted
\* when nothing depends on it.
SgVisit(a, id, revoked) ==
    LET a1 == [a EXCEPT !.sgs = {IF g.id = id /\ revoked
                                 THEN [g EXCEPT !.rules = {},
                                                !.egress = @ \ EgressToRevoke(g)]
                                 ELSE g : g \in @}]
    IN IF SgFree(a1, id) THEN [a1 EXCEPT !.sgs = {g \in @ : g.id # id}] ELSE a1

\* The remote after a round on the listed groups, one after the other.
RECURSIVE SgVisitAll(_, _, _)
SgVisitAll(a, ids, revoked) ==
    IF ids = <<>> THEN a
    ELSE SgVisitAll(SgVisit(a, Head(ids), revoked), Tail(ids), revoked)

\* The orders in which describe_security_groups may list the groups.
Listings(a, S) ==
    IF a.reorders = 0 THEN {SeqOf(S)}
    ELSE {q \in [1..Cardinality(S) -> S] :
            \A i \in 1..Cardinality(S) : \A j \in 1..Cardinality(S) :
              q[i] = q[j] => i = j}

\* One round of _delete_security_groups_with_retry: every ClientError of
\* delete_security_group counts the group as blocked and is logged as
\* information; a ClientError of a revoke call is passed over.
UnSgRound ==
    /\ pc = "u_sgs"
    /\ \E custom \in {{g \in aws.sgs : g.name # "default"}} :
       \E ids \in Listings(aws, Ids(custom) \cup un.stale) :
       \E groups \in {custom \cup {[id |-> i, name |-> "", rules |-> {},
                                     egress |-> {}] : i \in un.stale}} :
       \E revoked \in BOOLEAN :
       \E after \in {SgVisitAll(aws, ids, revoked)} :
       \E free \in {{g \in custom : g.id \notin Ids(after.sgs)}} :
       \E ops \in {SgRoundOps(ids, groups, un.round, revoked, free)} :
         LET blocked == custom \ free
             stuck == Ids(blocked) \cup un.stale
             last == LastRound(stuck, un.round)
         IN /\ ~revoked => /\ aws.refusals > 0
                           /\ \E k \in 1..Len(ops) : ops[k].op # "delete_security_group"
            /\ UStep([after EXCEPT !.refusals = IF revoked THEN @ ELSE @ - 1,
                                   !.reorders = IF ids = SeqOf(Ids(custom) \cup un.stale)
                                                THEN @ ELSE @ - 1],
                     [NotFound(Touched(un, Ids(custom) \cup un.stale))
                        EXCEPT !.round = IF last THEN 0 ELSE @ + 1,
                               !.blocked = @ \cup stuck,
                               !.exhausted = @ \cup (IF un.round + 1 = MaxRounds
                                                     THEN Ids(blocked) ELSE {}),
                               !.roundLog = Append(@, RoundEntry("sgs", un.round,
                                                        Ids(custom) \cup un.stale,
                                                        stuck)),
                               !.sgOps = IF un.opLog THEN @ \o ops ELSE @],
                     [k \in 1..Len(ops) |-> ops[k].op],
                     IF last THEN UnStageAfter("u_sgs") ELSE "u_sgs", 0)

\* _log_remaining_vpc_dependencies: the identifiers it logs.
Listing(a) ==
    Ids(a.subnets)
      \cup Ids({g \in a.sgs : g.name # "default"})
      \cup Ids(a.enis)
      \cup Ids({e \in a.eps : e.state \notin {"deleted", "failed"}})

\* The sleep before the retry that follows attempt (0-based).
VpcBackoff_Flat(attempt) == BackoffUnit

VpcBackoff(attempt) == BackoffUnit * (attempt + 1)

\* _delete_single_vpc 9): one pass of the delete_vpc retry loop.
UnDeleteVpc ==
    /\ pc = "u_vpc_del"
    /\ un.attempt < VpcAttempts
    /\ LET k == un.attempt
           u1 == [un EXCEPT !.attempt = k + 1]
           listed == [un EXCEPT !.attempt = k + 1,
                                !.listed = Append(@, [attempt |-> k + 1,
                                                       ids |-> Listing(aws),
                                                       remote |-> aws]),
                                !.warned = @ \cup Listing(aws)]
           final == Warned(listed, {aws.vpc})
       IN \/ /\ aws.vpc = 0
             /\ UStep(aws, [u1 EXCEPT !.vpcResult = "gone"], <<"delete_vpc">>,
                      UnStageAfter("u_vpc_del"), 0)
          \/ /\ aws.vpc # 0
             /\ VpcDependencies(aws) = {}
             /\ UStep([aws EXCEPT !.vpc = 0, !.vpcCidr = 0, !.rts = {}, !.sgs = {}],
                      [u1 EXCEPT !.vpcResult = "deleted"], <<"delete_vpc">>,
                      UnStageAfter("u_vpc_del"), 0)
          \/ /\ aws.vpc # 0
             /\ VpcDependencies(aws) # {}
             /\ IF k < VpcAttempts - 1
                THEN UStep(aws, [listed EXCEPT !.sleeps = Append(@, VpcBackoff(k))],
                           <<"delete_vpc">>, "u_vpc_del", 0)
                ELSE UStep(aws, [Exhausted(final, {aws.vpc}) EXCEPT !.vpcResult = "gave_up"],
                           <<"delete_vpc">>, UnStageAfter("u_vpc_del"), 0)
          \/ /\ aws.vpc # 0
             /\ faults < MaxUnFaults
             /\ UStep(aws, [final EXCEPT !.vpcResult = "failed"],
                      <<"delete_vpc">>, UnStageAfter("u_vpc_del"), 1)

\* ------------------------------------------------------------------------ IAM
\* delete_iam, the profile: get_instance_profile comes first, and its
\* NoSuchEntity ends the block without a word; else the roles leave the
\* profile and the profile is deleted.
ProfileCalls_NoLookup(a) ==
    Repeat(Cardinality(a.profileRoles), "remove_role_from_instance_profile")
      \o <<"delete_instance_profile">>

ProfileCalls(a) ==
    IF a.profile
    THEN Repeat(Cardinality(a.profileRoles), "remove_role_from_instance_profile")
           \o <<"delete_instance_profile">>
    ELSE <<>>

UnDeleteProfile ==
    /\ pc = "u_iam"
    /\ UStep([aws EXCEPT !.profile = FALSE, !.profileRoles = {}], un,
             ProfileCalls(aws), UnStageAfter("u_iam"), 0)

\* delete_iam: the policies leave the role, the role is deleted.
UnDeleteRole ==
    /\ pc = "u_role"
    /\ IF aws.role
       THEN UStep([aws EXCEPT !.role = FALSE, !.rolePolicies = {}], un,
                  Repeat(Cardinality(aws.rolePolicies \cap {"AmazonSSMManagedInstanceCore"}),
                         "detach_role_policy")
                    \o Repeat(Cardinality(aws.rolePolicies \cap {"BedrockAccess"}),
                              "delete_role_policy")
                    \o <<"delete_role">>,
                  UnStageAfter("u_role"), 0)
       ELSE UStep(aws, un, <<>>, UnStageAfter("u_role"), 0)

\* The calls of delete_cloudfront_retry on the n distributions it listed.
RetryCalls_DisableFirst(n) ==
    Repeat(n, "update_distribution") \o Repeat(n, "delete_distribution:retry")

RetryCalls(n) == Repeat(n, "delete_distribution:retry")

\* delete_cloudfront_retry: DistributionNotDisabled and NoSuchDistribution
\* are logged as information.
UnCloudfrontRetry ==
    /\ pc = "u_cf_retry"
    /\ LET kept == {d \in aws.cfs : d.enabled \/ d.status # "Deployed"} IN
       UStep([aws EXCEPT !.cfs = kept],
             Exhausted(NotFound(Touched(un, Ids(aws.cfs) \cup un.stale)), Ids(kept)),
             RetryCalls(Cardinality(aws.cfs) + Cardinality(un.stale)),
             UnStageAfter("u_cf_retry"), 0)

UnFinish ==
    /\ pc = "u_done"
    /\ pc' = "idle"
    /\ mode' = "idle"
    /\ status' = "ok"
    /\ UNCHANGED <<aws, loc, calls, created, out, prevOut, runs, log, hist, kills,
                   faults, runFaults, enableCf, un, w>>

InitUninstall ==
    /\ aws \in Accounts
    /\ pc = "idle"
    /\ mode = "idle"
    /\ loc = InitLoc
    /\ calls = <<>>
    /\ created = <<>>
    /\ out = NoOut
    /\ prevOut = NoOut
    /\ status = "none"
    /\ runs = 0
    /\ log = <<>>
    /\ hist = <<>>
    /\ kills = 0
    /\ faults = 0
    /\ runFaults = 0
    /\ enableCf = TRUE
    /\ un = InitUn
    /\ w = InitW

UninstallStages ==
    \/ UnDisableCloudfront \/ UnWaitCfDeployed \/ UnDeleteCloudfront
    \/ UnDeleteListeners \/ UnDeleteLoadBalancer \/ UnDeleteTargetGroups
    \/ UnTerminateInstances \/ UnWaitTerminated
    \/ UnFindVpc \/ UnDeleteEndpoints \/ UnWaitEndpointsDeleted
    \/ UnDeleteNats \/ UnWaitNatDeleted \/ UnDeleteEnis \/ UnSubnetRound
    \/ UnDeleteRouteTables \/ UnDeleteIgws \/ UnReleaseEips \/ UnSgRound
    \/ UnDeleteVpc \/ UnDeleteProfile \/ UnDeleteRole \/ UnCloudfrontRetry
    \/ UnFinish

UninstallStep == UnStart \/ UninstallStages

NextUninstall == UninstallStep \/ RemoteSettles \/ VpcRemovedElsewhere

\* Uninstaller.run on each such account.
SpecUninstall == InitUninstall /\ [][NextUninstall]_vars

\* The same, the uninstaller always going on to its next statement.
SpecUninstallFair == SpecUninstall /\ WF_vars(UninstallStep)

\* The uninstaller on an account that holds the foreign group, with revoke
\* calls the remote refuses.
InitUninstallRefusing ==
    /\ aws \in {[a EXCEPT !.refusals = MaxRefusals] :
                   a \in {b \in Accounts : \E g \in b.sgs : g.name = "foreign"}}
    /\ pc = "idle"
    /\ mode = "idle"
    /\ loc = InitLoc
    /\ calls = <<>>
    /\ created = <<>>
    /\ out = NoOut
    /\ prevOut = NoOut
    /\ status = "none"
    /\ runs = 0
    /\ log = <<>>
    /\ hist = <<>>
    /\ kills = 0
    /\ faults = 0
    /\ runFaults = 0
    /\ enableCf = TRUE
    /\ un = [InitUn EXCEPT !.opLog = TRUE]
    /\ w = InitW

SpecUninstallRefusing == InitUninstallRefusing /\ [][NextUninstall]_vars

NextUninstallRace == NextUninstall \/ ResourceVanishes

\* The same, with resources that vanish between listing and deletion.
SpecUninstallRace == InitUninstall /\ [][NextUninstallRace]_vars

NextUninstallAgain == NextUninstall \/ UnStartAgain

\* The same, with Uninstaller.run run again after it ended.
SpecUninstallAgain == InitUninstall /\ [][NextUninstallAgain]_vars

\* Installer.run until it has succeeded, then Uninstaller.run on the account
\* it has left.
StartRunBeforeUninstall == ~un.started /\ StartRun

UnStartAfterInstall == runs > 0 /\ status = "ok" /\ UnStart

NextRoundTrip ==
    \/ StartRunBeforeUninstall \/ Interrupt \/ InstallStep
    \/ UnStartAfterInstall \/ UninstallStages \/ RemoteSettles

SpecRoundTrip == Init /\ [][NextRoundTrip]_vars

\* ============================================================ classification
\* A Name tag is the sequence of its characters; str.lower on the letters
\* the tags below are made of.
Lower(c) ==
    CASE c = "P" -> "p" [] c = "U" -> "u" [] c = "B" -> "b" [] c = "L" -> "l"
      [] c = "I" -> "i" [] c = "C" -> "c" [] c = "R" -> "r" [] c = "V" -> "v"
      [] c = "A" -> "a" [] c = "T" -> "t" [] c = "E" -> "e" [] OTHER -> c

\* word in name.lower()
Contains(name, word) ==
    \E k \in 0..(Len(name) - Len(word)) :
        \A j \in 1..Len(word) : Lower(name[k + j]) = word[j]

\* What the Name tag decides: 'public' is looked for first.
TagTier_PrivateFirst(name) ==
    IF Contains(name, <<"p", "r", "i", "v", "a", "t", "e">>) THEN "private"
    ELSE IF Contains(name, <<"p", "u", "b", "l", "i", "c">>) THEN "public"
    ELSE "other"

TagTier(name) ==
    IF Contains(name, <<"p", "u", "b", "l", "i", "c">>) THEN "public"
    ELSE IF Contains(name, <<"p", "r", "i", "v", "a", "t", "e">>) THEN "private"
    ELSE "other"

\* _classify_subnets on the subnets of account a, when describe_route_tables
\* raises for the subnets of failing: the two lists, and the subnets the
\* route tables were looked up for.
ClassifySubnets(a, failing) ==
    LET asked == {s \in a.subnets : s.tier \notin {"public", "private"}}
        pub == {s \in a.subnets :
                   IsPublicSubnet(a, s) /\ ~(s \in asked /\ s.id \in failing)}
    IN [public |-> SeqOf(Ids(pub)), private |-> SeqOf(Ids(a.subnets \ pub)),
        lookups |-> SeqOf(Ids(asked)), failed |-> failing \cap Ids(asked)]

\* The Name tags of the subnets handed to _classify_subnets: none, 'public'
\* and 'private' in any case, both words, a word cut short, another word.
TagNames ==
    {<<>>,
     <<"p", "u", "b", "l", "i", "c", "-", "a">>,
     <<"P", "U", "B", "L", "I", "C">>,
     <<"m", "y", "-", "P", "r", "i", "v", "a", "t", "e">>,
     <<"p", "r", "i", "v", "a", "t", "e", "-", "P", "u", "b", "l", "i", "c">>,
     <<"p", "u", "b", "l", "i">>,
     <<"a", "p", "p">>}

\* A fabric with up to MaxClassified subnets, each with one of the tags and
\* associated with a route table that has a route to an internet gateway
\* (1), with one that has none (2) or with no route table (0); the main
\* route table has a route to the internet gateway or not.
ClassifyAccounts ==
    {[FreshAws EXCEPT
        !.nextId = 30, !.vpc = 1, !.vpcCidr = Candidates[1],
        !.igws = {[id |-> 4, attached |-> TRUE]},
        !.rts = {[id |-> 2, main |-> TRUE, igw |-> IF mainIgw THEN 4 ELSE 0,
                  nat |-> 0, assoc |-> {}],
                 [id |-> 5, main |-> FALSE, igw |-> 4, nat |-> 0,
                  assoc |-> {10 + k : k \in {j \in 1..n : route[j] = 1}}],
                 [id |-> 6, main |-> FALSE, igw |-> 0, nat |-> 0,
                  assoc |-> {10 + k : k \in {j \in 1..n : route[j] = 2}}]},
        !.subnets = {[id |-> 10 + k, tier |-> TagTier(name[k]), name |-> name[k],
                      az |-> 1, idx |-> k] : k \in 1..n}]
       : <<n, name, route, mainIgw>> \in
           UNION {{<<i, nm, r, mi>> : nm \in [1..i -> TagNames], r \in [1..i -> 0..2],
                                      mi \in BOOLEAN} : i \in 1..MaxClassified}}

InitClassify ==
    /\ aws \in ClassifyAccounts
    /\ pc = "idle"
    /\ mode = "idle"
    /\ loc = InitLoc
    /\ calls = <<>>
    /\ created = <<>>
    /\ out = NoOut
    /\ prevOut = NoOut
    /\ status = "none"
    /\ runs = 0
    /\ log = <<>>
    /\ hist = <<>>
    /\ kills = 0
    /\ faults = 0
    /\ runFaults = 0
    /\ enableCf = TRUE
    /\ un = InitUn
    /\ w = InitW

\* _classify_subnets called on the subnets of the fabric.
CallClassifySubnets ==
    /\ pc = "idle"
    /\ hist = <<>>
    /\ \E failing \in SUBSET {s.id : s \in {t \in aws.subnets : t.tier = "other"}} :
         hist' = <<[h |-> "_classify_subnets", args |-> aws.subnets,
                    res |-> ClassifySubnets(aws, failing)]>>
    /\ UNCHANGED <<aws, pc, mode, loc, calls, created, out, prevOut, status, runs,
                   log, kills, faults, runFaults, enableCf, un, w>>

SpecClassify == InitClassify /\ [][CallClassifySubnets]_vars

\* ------------------------------------------------- the instance is stopped
\* Between two runs someone stops the project's instance: the remote takes
\* it from running to stopping and from stopping to stopped.
InstanceStops ==
    /\ pc = "idle"
    /\ \E i \in aws.insts :
         /\ i.state \in {"running", "stopping"}
         /\ aws' = [aws EXCEPT !.insts =
                       (@ \ {i}) \cup {[i EXCEPT !.state = IF @ = "running"
                                                            THEN "stopping"
                                                            ELSE "stopped"]}]
    /\ UNCHANGED <<pc, mode, loc, calls, created, out, prevOut, status, runs, log,
                   hist, kills, faults, runFaults, enableCf, un, w>>

NextStops == NextFresh \/ InstanceStops

\* Installer.run, run again after it ended, with the instance stopped in
\* between.
SpecStops == Init /\ [][NextStops]_vars

\* -------------------------------------------- a gateway made by an operator
\* An account without the project's fabric, or with the fabric, its two
\* public subnets and a NAT gateway in them, pending or available, that
\* carries the project's name tag or none.
NatAccounts ==
    {FreshAws}
      \cup {[FreshAws EXCEPT
               !.nextId = 30, !.vpc = 1, !.vpcCidr = Candidates[1],
               !.igws = {[id |-> 4, attached |-> TRUE]},
               !.rts = {[id |-> 2, main |-> TRUE, igw |-> 0, nat |-> 0, assoc |-> {}],
                        [id |-> 5, main |-> FALSE, igw |-> 4, nat |-> 0,
                         assoc |-> {6, 7}]},
               !.sgs = {[id |-> 3, name |-> "default", rules |-> {},
                         egress |-> {DefaultEgressRule}]},
               !.subnets = {[id |-> 6, tier |-> "public", az |-> 1, idx |-> 0],
                            [id |-> 7, tier |-> "public", az |-> 2, idx |-> 1]},
               !.eips = {8},
               !.nats = {[id |-> 9, state |-> st, eip |-> 8, named |-> nm,
                          subnet |-> 6]}]
              : st \in {"pending", "available"}, nm \in BOOLEAN}

InitNat ==
    /\ aws \in NatAccounts
    /\ pc = "idle"
    /\ mode = "idle"
    /\ loc = InitLoc
    /\ calls = <<>>
    /\ created = <<>>
    /\ out = NoOut
    /\ prevOut = NoOut
    /\ status = "none"
    /\ runs = 0
    /\ log = <<>>
    /\ hist = <<>>
    /\ kills = 0
    /\ faults = 0
    /\ runFaults = 0
    /\ enableCf = TRUE
    /\ un = InitUn
    /\ w = InitW

SpecNat == InitNat /\ [][NextFresh]_vars

\* ------------------------------------------------ security groups, any order
\* Inbound rules an operator may have added that name a group as source.
CrossRules ==
    {"alb:any:ec2-sg", "ec2:any:ec2-sg", "ec2:any:foreign-sg",
     "alb:any:foreign-sg", "foreign:any:alb-sg", "foreign:any:ec2-sg"}

\* The group that holds such a rule.
RuleOwner(rule) ==
    IF rule \in {"alb:any:ec2-sg", "alb:any:foreign-sg"} THEN "alb"
    ELSE IF rule \in {"ec2:any:ec2-sg", "ec2:any:foreign-sg"} THEN "ec2"
    ELSE "foreign"

\* Account b, the remote listing its groups in any order, with those rules.
CrossReferenced(b, extra) ==
    [b EXCEPT !.reorders = MaxReorders,
              !.sgs = {[g EXCEPT !.rules = @ \cup {r \in extra : RuleOwner(r) = g.name}] :
                         g \in @}]

\* Converged accounts whose groups name each other in inbound rules, and one
\* that holds the instance, the load balancer and the distribution as well.
SgOrderAccounts ==
    {CrossReferenced(Account("none", c[1], c[2], FALSE, FALSE), extra) :
       c \in {"none", "foreign"} \X BOOLEAN, extra \in SUBSET CrossRules}
      \cup {CrossReferenced(Account("none", "none", FALSE, TRUE, TRUE), {})}

InitSgOrder ==
    /\ aws \in SgOrderAccounts
    /\ pc = "idle"
    /\ mode = "idle"
    /\ loc = InitLoc
    /\ calls = <<>>
    /\ created = <<>>
    /\ out = NoOut
    /\ prevOut = NoOut
    /\ status = "none"
    /\ runs = 0
    /\ log = <<>>
    /\ hist = <<>>
    /\ kills = 0
    /\ faults = 0
    /\ runFaults = 0
    /\ enableCf = TRUE
    /\ un = InitUn
    /\ w = InitW

\* Uninstaller.run on each such account.
SpecSgOrder == InitSgOrder /\ [][NextUninstall]_vars

\* --------------------------------------------------------- project identity
\* A name longer than the load balancer's name may be.
LongName(c) == Repeat(StemLen, "p") \o <<c>>

ProjectNames ==
    {<<"d", "e", "m", "o">>, <<"o", "p", "e", "n", "c", "l", "a", "w">>,
     LongName("a"), LongName("b")}

\* s[:n]
Truncate(s, n) == SubSeq(s, 1, Min({Len(s), n}))

\* The name or tag each lookup of Uninstaller asks for.
Label(kind, project) ==
    IF kind = "cf" THEN project \o <<" CloudFront">>
    ELSE IF kind = "alb" THEN Truncate(<<"a", "l", "b", "-">> \o project, NameCap)
    ELSE IF kind = "tg" THEN Truncate(<<"t", "g", "-">> \o project, NameCap)
    ELSE IF kind = "instance" THEN project
    ELSE IF kind = "vpc" THEN <<"vpc-for-">> \o project
    ELSE IF kind = "role" THEN project \o <<"-bedrock-role">>
    ELSE project \o <<"-bedrock-profile">>

Kinds == {"cf", "alb", "tg", "instance", "vpc", "role", "profile"}

\* The resources of account a of that kind.
OfKind(a, kind) ==
    IF kind = "cf" THEN Ids(a.cfs)
    ELSE IF kind = "alb" THEN Ids(a.albs)
    ELSE IF kind = "tg" THEN Ids(a.tgs)
    ELSE IF kind = "instance" THEN Ids(a.insts)
    ELSE IF kind = "vpc" THEN {a.vpc}
    ELSE {}

\* Account b as the lookups of a run for project own list it when another
\* project lives in the account: a resource of the other project is listed
\* when it carries the name the lookup asks for, and the installer of either
\* project may have made a resource both names select.
Scoped(b, own, other, maker) ==
    [b EXCEPT !.scope =
       [project |-> own,
        owners |-> IF maker = own THEN {}
                   ELSE {[id |-> i, project |-> other] :
                           i \in UNION {OfKind(b, k) :
                                          k \in {x \in Kinds :
                                                   Label(x, other) = Label(x, own)}}},
        others |-> {k \in Kinds : Label(k, other) # Label(k, own)}]]

FrameAccounts ==
    {Scoped(b, c[1], c[2], c[3]) :
       b \in {Account("none", "none", FALSE, FALSE, FALSE),
              Account("available", "idle", FALSE, TRUE, TRUE)},
       c \in {d \in ProjectNames \X ProjectNames \X ProjectNames :
                d[1] # d[2] /\ d[3] \in {d[1], d[2]}}}

InitFrame ==
    /\ aws \in FrameAccounts
    /\ pc = "idle"
    /\ mode = "idle"
    /\ loc = InitLoc
    /\ calls = <<>>
    /\ created = <<>>
    /\ out = NoOut
    /\ prevOut = NoOut
    /\ status = "none"
    /\ runs = 0
    /\ log = <<>>
    /\ hist = <<>>
    /\ kills = 0
    /\ faults = 0
    /\ runFaults = 0
    /\ enableCf = TRUE
    /\ un = InitUn
    /\ w = InitW

\* Uninstaller.run for one project in an account that holds another.
SpecFrame == InitFrame /\ [][NextUninstall]_vars

\* ================================================================== claims
CreateCalls ==
    {"create_vpc", "create_internet_gateway", "create_route_table:public",
     "create_route:public", "create_subnet:public", "allocate_address",
     "create_nat_gateway", "create_route_table:private", "create_route:private",
     "create_subnet:private", "create_route:main", "create_role",
     "create_instance_profile", "create_security_group:ec2",
     "create_security_group:alb", "create_vpc_endpoint", "run_instances",
     "create_load_balancer", "create_target_group", "create_listener",
     "create_distribution"}

\* Two calls of one step in sequence, with the same arguments, both returning.
Twice(k) ==
    /\ k \in 1..(Len(hist) - 1)
    /\ hist[k].h = hist[k + 1].h
    /\ hist[k].args = hist[k + 1].args
    /\ hist[k].res # <<-1>>
    /\ hist[k + 1].res # <<-1>>

IamRepeatCalls ==
    <<"create_role", "update_assume_role_policy", "put_role_policy",
      "attach_role_policy", "create_instance_profile">>

Rerun(k) ==
    /\ k \in 1..(Len(log) - 1)
    /\ log[k].status = "ok"
    /\ log[k].faults = 0
    /\ log[k + 1].status = "ok"

SameIds(a, b) ==
    /\ a.vpc_id = b.vpc_id
    /\ a.public_subnets = b.public_subnets
    /\ a.private_subnets = b.private_subnets
    /\ a.ec2_sg = b.ec2_sg
    /\ a.alb_sg = b.alb_sg
    /\ a.nat_gateway_id = b.nat_gateway_id
    /\ a.vpce_id = b.vpce_id
    /\ a.instance_id = b.instance_id
    /\ a.alb_arn = b.alb_arn
    /\ a.tg_arn = b.tg_arn
    /\ a.cloudfront_id = b.cloudfront_id

ExactTopology(a) ==
    /\ Cardinality(a.igws) = 1
    /\ \A g \in a.igws : g.attached
    /\ Cardinality(a.eips) = 1
    /\ Cardinality(a.nats) = 1
    /\ Cardinality({s \in a.subnets : s.tier = "public"}) = 2
    /\ Cardinality({s \in a.subnets : s.tier = "private"}) = 2
    /\ Cardinality(a.albs) = 1
    /\ Cardinality(a.insts) = 1
    /\ \A b \in a.albs :
         \E l \in a.listeners, t \in a.tgs :
            /\ l.alb = b.id
            /\ l.tg = t.id
            /\ Ids(a.insts) \subseteq t.targets

\* C3: a run that follows an interrupted run, all its remote calls succeeding,
\* completes and leaves exactly the fixed topology.
C3_RerunAfterInterruptConverges ==
    (/\ Len(log) = 2
     /\ log[1].status = "interrupted"
     /\ log[1].faults = 0
     /\ log[2].status # "interrupted"
     /\ log[2].faults = 0)
        => (log[2].status = "ok" /\ ExactTopology(aws))

NeedsSubnets ==
    {"create_vpc_endpoint", "run_instances", "create_load_balancer",
     "create_target_group", "create_listener"}

\* C4: with an empty public or private subnet list out of the networking step,
\* no later step of the run issues a remote create call.
C4_FailFastOnMissingSubnets ==
    (/\ mode = "run"
     /\ pc \notin {"net", "vpc_attr", "igw", "igw_attach", "pub_rt", "pub_rt_route",
                   "pub_sub", "nat", "nat_create", "nat_wait", "priv_rt",
                   "priv_rt_route", "priv_sub", "main_route"}
     /\ (loc.pub = <<>> \/ loc.priv = <<>>))
        => Range(calls) \cap NeedsSubnets = {}

\* The place of a creation call in the order of C5; 0 for any other call.
Rank(c) ==
    IF c = "create_vpc" THEN 1
    ELSE IF c \in {"create_internet_gateway", "attach_internet_gateway"} THEN 2
    ELSE IF c \in {"create_route_table:public", "create_route:public"} THEN 3
    ELSE IF c = "create_subnet:public" THEN 4
    ELSE IF c \in {"allocate_address", "create_nat_gateway"} THEN 5
    ELSE IF c \in {"create_route_table:private", "create_route:private"} THEN 6
    ELSE IF c = "create_subnet:private" THEN 7
    ELSE IF c = "create_role" THEN 8
    ELSE IF c \in {"create_instance_profile", "add_role_to_instance_profile"} THEN 9
    ELSE IF c \in {"create_security_group:ec2", "create_security_group:alb"} THEN 10
    ELSE IF c \in {"authorize_security_group_ingress:alb:80:world",
                   "authorize_security_group_ingress:ec2:gateway:alb-sg",
                   "authorize_security_group_ingress:ec2:443:vpc"} THEN 11
    ELSE IF c = "create_vpc_endpoint" THEN 12
    ELSE IF c \in {"run_instances", "start_instances"} THEN 13
    ELSE IF c = "create_load_balancer" THEN 14
    ELSE IF c = "create_target_group" THEN 15
    ELSE IF c \in {"register_targets", "create_listener"} THEN 16
    ELSE IF c = "create_distribution" THEN 17
    ELSE 0

\* C5: within one Installer.run the creation calls are issued in the order
\* fabric, internet gateway, public route table, public subnets, NAT gateway,
\* private route table, private subnets, role, profile, security groups,
\* ingress rules, endpoint, instance, load balancer, target group, listener,
\* distribution; the ingress rule naming the load-balancer group comes when
\* both groups exist, run_instances when the role is in the profile and the
\* propagation poll has ended, register_targets when the instance exists, and
\* create_distribution when the load balancer is known.
C5_CreateOrder ==
    mode = "run" =>
        /\ LET ranked == SelectSeq(calls, LAMBDA c : Rank(c) # 0) IN
           \A i \in 1..(Len(ranked) - 1) : Rank(ranked[i]) <= Rank(ranked[i + 1])
        /\ "authorize_security_group_ingress:ec2:gateway:alb-sg" \in Range(calls)
             => /\ loc.ec2sg \in Ids({g \in aws.sgs : g.name = "ec2"})
                /\ loc.albsg \in Ids({g \in aws.sgs : g.name = "alb"})
        /\ "run_instances" \in Range(calls)
             => (loc.iamDone /\ "bedrock-role" \in aws.profileRoles)
        /\ "register_targets" \in Range(calls) => loc.inst \in Ids(aws.insts)
        /\ "create_distribution" \in Range(calls) => loc.alb \in Ids(aws.albs)

\* A first run at its end, having created the whole topology.
C5_Witness ==
    /\ mode = "run"
    /\ pc = "finish"
    /\ Len(created) = 19
    /\ "create_distribution" \in Range(calls)

\* The place of a deletion call in the order of C6; 0 for any other call.
URank(c) ==
    IF c \in {"update_distribution", "delete_distribution"} THEN 1
    ELSE IF c = "delete_listener" THEN 2
    ELSE IF c = "delete_load_balancer" THEN 3
    ELSE IF c = "delete_target_group" THEN 4
    ELSE IF c = "terminate_instances" THEN 5
    ELSE IF c = "delete_vpc_endpoints" THEN 6
    ELSE IF c \in {"delete_route", "delete_nat_gateway"} THEN 7
    ELSE IF c = "delete_network_interface" THEN 8
    ELSE IF c = "delete_subnet" THEN 9
    ELSE IF c \in {"disassociate_route_table", "delete_route_table"} THEN 10
    ELSE IF c \in {"detach_internet_gateway", "delete_internet_gateway"} THEN 11
    ELSE IF c = "release_address" THEN 12
    ELSE IF c \in {"revoke_security_group_ingress", "revoke_security_group_egress",
                    "delete_security_group"} THEN 13
    ELSE IF c = "delete_vpc" THEN 14
    ELSE IF c \in {"remove_role_from_instance_profile", "delete_instance_profile"} THEN 15
    ELSE IF c \in {"detach_role_policy", "delete_role_policy", "delete_role"} THEN 16
    ELSE IF c = "delete_distribution:retry" THEN 17
    ELSE 0

Before(c, d) ==
    \A j \in 1..Len(calls) :
        calls[j] = d => \A i \in 1..Len(calls) : calls[i] = c => i < j

UninstallCalls ==
    {"update_distribution", "delete_distribution", "delete_listener",
     "delete_load_balancer", "delete_target_group", "terminate_instances",
     "delete_vpc_endpoints", "delete_route", "delete_nat_gateway",
     "delete_network_interface", "delete_subnet", "disassociate_route_table",
     "delete_route_table", "detach_internet_gateway", "delete_internet_gateway",
     "release_address", "revoke_security_group_ingress",
     "revoke_security_group_egress", "delete_security_group",
     "delete_vpc", "remove_role_from_instance_profile", "delete_instance_profile",
     "detach_role_policy", "delete_role_policy", "delete_role",
     "delete_distribution:retry"}

URanks == [c \in UninstallCalls |-> URank(c)]

URankOf(c) == IF c \in UninstallCalls THEN URanks[c] ELSE 0

\* C6: within one Uninstaller.run the deletion calls are issued in the order
\* distribution (disable, delete), listeners, load balancer, target group,
\* instances (terminate and wait), endpoints, NAT routes and NAT gateways,
\* idle network interfaces, subnets, non-main route tables, internet gateway
\* (detach, then delete), release of the NAT addresses, security groups,
\* fabric, instance profile, role, final distribution retry; no call of a
\* later stage comes before one of an earlier stage, and none follows
\* terminate_instances before the wait for termination has returned.
C6_DeleteOrder ==
    un.started =>
        /\ \A i \in 1..(Len(calls) - 1) : URankOf(calls[i]) <= URankOf(calls[i + 1])
        /\ \A i \in 1..Len(calls) : URankOf(calls[i]) # 0
        /\ Before("update_distribution", "delete_distribution")
        /\ Before("detach_internet_gateway", "delete_internet_gateway")
        /\ Before("remove_role_from_instance_profile", "delete_instance_profile")
        /\ (calls # <<>> /\ URankOf(calls[Len(calls)]) > 5
               /\ "terminate_instances" \in Range(calls))
             => "ec2" \in un.waited

\* An uninstall run at its end that issued a call of every stage.
C6_Witness ==
    /\ un.started
    /\ pc = "u_done"
    /\ {URank(calls[i]) : i \in 1..Len(calls)} = 1..17

\* The children of the fabric that exist and are not already being deleted.
Children(a) ==
    Ids(a.subnets)
      \cup Ids({g \in a.sgs : g.name # "default"})
      \cup Ids({rt \in a.rts : ~rt.main})
      \cup Ids({g \in a.igws : g.attached})
      \cup Ids({n \in a.nats : n.state \in {"available", "pending", "failed"}})
      \cup Ids({e \in a.eps : e.state # "deleted"})
      \cup Ids(a.enis)

\* C7: once delete_vpc has been called for the fabric, every subnet,
\* non-default security group, non-main route table, internet gateway, NAT
\* gateway, interface endpoint and network interface the fabric still has
\* received a delete call earlier in the run.
C7_ChildrenGotDeleteCall ==
    (un.started /\ un.attempt >= 1) => Children(aws) \subseteq un.touched

\* C8: _wait_nat makes at most 60 polls; when no poll sees the gateway
\* available it ends after exactly 60 polls by raising, never by returning;
\* when poll k sees it available it returns at poll k.
C8_WaitNatExactBound ==
    w.kind = "nat" =>
        /\ w.polls <= 60
        /\ (w.result # "" /\ ~w.seen) => (w.polls = 60 /\ w.result = "raise")
        /\ (w.result = "" ) => (~w.seen /\ w.polls < 60)
        /\ w.seen => (w.result = "return" /\ w.polls \in 1..60)
        /\ w.result = "raise" => w.caller = "stops"

\* _wait_nat ended by its bound.
C8_Witness ==
    /\ w.kind = "nat"
    /\ w.polls = 60
    /\ ~w.seen
    /\ w.result = "raise"

\* C9: a wait loop other than _wait_nat that used up its bound without seeing
\* the awaited state raises or signals the timeout to its caller, and the
\* caller does not go on as if the resource were ready.
C9_ExhaustedWaitSignalsTimeout ==
    (/\ w.kind \in {"subnet", "iam", "cf_deployed", "endpoints_deleted", "nat_deleted"}
     /\ w.result # ""
     /\ ~w.seen)
        => (w.result \in {"raise", "false"} /\ w.caller # "proceeds")

\* What remains in a fabric, as C10 counts it.
RemainingDependents(a) ==
    Ids(a.subnets)
      \cup Ids({g \in a.sgs : g.name # "default"})
      \cup Ids(a.enis)
      \cup Ids({e \in a.eps : e.state \notin {"deleted", "failed"}})

\* The last delete_vpc attempt was followed by the listing of what remains.
LastAttemptListed ==
    /\ un.listed # <<>>
    /\ un.listed[Len(un.listed)].attempt = un.attempt
    /\ un.listed[Len(un.listed)].ids
         = RemainingDependents(un.listed[Len(un.listed)].remote)

BoundedBackoff ==
    /\ un.attempt <= 5
    /\ Len(un.sleeps) <= 4
    /\ \A k \in 1..Len(un.sleeps) :
         /\ un.sleeps[k] = 15 * k
         /\ k > 1 => un.sleeps[k] > un.sleeps[k - 1]
    /\ \A k \in 1..Len(un.listed) : un.listed[k].attempt = k
    /\ un.vpcResult # "" => (pc # "u_vpc_del" /\ status \in {"running", "ok"})
    /\ un.vpcResult = "gave_up" => un.attempt = 5

\* C10 as stated: at most 5 delete_vpc calls; the sleep after the k-th
\* DependencyViolation is 15*k seconds; every attempt that ends the loop by an
\* error, the dependency error of the fifth attempt or any other error, is
\* followed by the listing of every remaining subnet, non-default security
\* group, network interface and live endpoint, and the method returns.
C10_EveryFailureListed ==
    /\ BoundedBackoff
    /\ un.vpcResult \in {"gave_up", "failed", "gone"} => LastAttemptListed

\* C10 amended: the same, except that the error InvalidVpcID.NotFound ends the
\* attempts at once with no listing, the fabric being gone; every other
\* error that ends the loop is followed by the listing.
C10_FailureListedUnlessGone ==
    /\ BoundedBackoff
    /\ un.vpcResult \in {"gave_up", "failed"} => LastAttemptListed
    /\ un.vpcResult = "gone"
         => \A k \in 1..Len(un.listed) : un.listed[k].attempt < un.attempt

\* The fifth attempt failed on a security group made outside the installer.
C10_Witness ==
    /\ un.vpcResult = "gave_up"
    /\ un.attempt = 5
    /\ un.sleeps = <<15, 30, 45, 60>>
    /\ 25 \in un.listed[Len(un.listed)].ids

\* C11: a delete call of the uninstaller answered "not found" counts as
\* success: the run does not abort, no warning is logged for the resource,
\* and the resource is not counted as blocked.
C11_NotFoundIsSuccess ==
    un.started =>
        /\ un.notFound \cap un.warned = {}
        /\ un.notFound \cap un.blocked = {}
        /\ un.notFound # {} => status \in {"running", "ok"}

\* C12: Uninstaller.run on an account where nothing of the topology is left
\* issues no mutating call, logs no warning, reports nothing left over and
\* ends normally.
C12_TeardownOfNothingIsSilent ==
    (un.started /\ un.clean) =>
        /\ calls = <<>>
        /\ un.warned = {}
        /\ un.exhausted = {}
        /\ un.touched = {}
        /\ status \in {"running", "ok"}
        /\ mode = "idle" => status = "ok"

\* A second teardown has ended, on what the first one emptied.
C12_Witness ==
    /\ un.runs = 2
    /\ un.clean
    /\ mode = "idle"
    /\ status = "ok"
    /\ aws.nextId = 30

\* What the uninstaller was to delete and is still there.
Present(a) ==
    Ids(a.subnets) \cup Ids(a.sgs) \cup Ids(a.tgs) \cup Ids(a.cfs) \cup ({a.vpc} \ {0})

\* C13: when Uninstaller.run has ended, every resource that is still there
\* because its deletion stayed refused as still referenced (a subnet or a
\* security group after 6 rounds, a target group in use, a distribution not
\* disabled, the fabric after 5 attempts) is named in a warning of the run.
C13_BlockedIsWarned ==
    (un.started /\ mode = "idle" /\ status = "ok") =>
        (un.exhausted \cap Present(aws)) \subseteq un.warned

\* C14: Uninstaller.run ends normally, having gone through every stage,
\* whatever was refused or timed out on the way.
C14_LaterStagesAlwaysRun ==
    (un.started /\ mode = "idle") => status = "ok"

\* What a first run on a fresh account is expected to create, each kind
\* with its number.
FreshShape ==
    [k \in {"vpc", "subnet:public", "subnet:private", "nat", "role", "profile",
            "instance", "alb", "tg", "listener"}
       |-> IF k \in {"subnet:public", "subnet:private"} THEN 2 ELSE 1]

\* The zones of the subnets ids.
ZonesOf(ids) == {x.az : x \in {y \in aws.subnets : y.id \in ids}}

\* C15: a first Installer.run on an account holding nothing of the project,
\* every remote call succeeding, takes the first candidate range no other
\* fabric has, creates exactly two public and two private subnets lying in
\* two zones, one NAT gateway, one role and one profile, one instance, one
\* load balancer with one target group and one listener, and one
\* distribution exactly when it is enabled; the record it returns names each
\* of them.
C15_FreshProvision ==
    (runs = 1 /\ mode = "idle" /\ status = "ok" /\ runFaults = 0) =>
        /\ \A k \in 1..Len(Candidates) :
             (/\ Candidates[k] \notin aws.otherCidrs
              /\ \A j \in 1..(k - 1) : Candidates[j] \in aws.otherCidrs)
               => out.vpc_cidr = Candidates[k]
        /\ \A k \in DOMAIN FreshShape : Count(created, k) = FreshShape[k]
        /\ Count(created, "cf") = (IF enableCf THEN 1 ELSE 0)
        /\ Cardinality(ZonesOf(Range(out.public_subnets))) = 2
        /\ Cardinality(ZonesOf(Range(out.private_subnets))) = 2
        /\ out.vpc_id = aws.vpc /\ aws.vpc # 0
        /\ Range(out.public_subnets) \cup Range(out.private_subnets) = Ids(aws.subnets)
        /\ Len(out.public_subnets) = 2 /\ Len(out.private_subnets) = 2
        /\ {out.nat_gateway_id} = Ids(aws.nats)
        /\ out.iam_role # "" /\ out.instance_profile # ""
        /\ {out.instance_id} = Ids(aws.insts)
        /\ {out.alb_arn} = Ids(aws.albs)
        /\ {out.tg_arn} = Ids(aws.tgs)
        /\ Cardinality(aws.listeners) = 1
        /\ IF enableCf THEN {out.cloudfront_id} = Ids(aws.cfs)
           ELSE out.cloudfront_id = 0 /\ aws.cfs = {}

C15_Witness ==
    /\ runs = 1 /\ mode = "idle" /\ status = "ok" /\ runFaults = 0
    /\ enableCf
    /\ aws.otherCidrs = {Candidates[1], Candidates[2], Candidates[4]}
    /\ out.vpc_cidr = Candidates[3]
    /\ Cardinality(aws.subnets) = 4
    /\ out.cloudfront_id # 0

\* C16: after any successful Installer.run (here already one of runs in which
\* the remote refused no call), whatever the fabric held when the run
\* started, the record names one fabric, exactly two public and two private
\* subnets, the two of each tier in two different zones, and one NAT
\* gateway; the account holds no subnet or NAT gateway beyond that.
C16_NetworkShape ==
    (mode = "idle" /\ status = "ok" /\ faults = 0) =>
        /\ out.vpc_id = aws.vpc /\ aws.vpc # 0
        /\ Len(out.public_subnets) = 2
        /\ Len(out.private_subnets) = 2
        /\ Cardinality(ZonesOf(Range(out.public_subnets))) = 2
        /\ Cardinality(ZonesOf(Range(out.private_subnets))) = 2
        /\ Cardinality(aws.subnets) = 4
        /\ Ids(aws.nats) = {out.nat_gateway_id}

\* C17: whenever Installer.run returns, its record holds every topology key
\* with a non-null, non-empty value, on the create path and on every reuse
\* path; cloudfront_id and cloudfront_domain alone are null, exactly when
\* the distribution is disabled.
C17_RecordComplete ==
    (mode = "idle" /\ status = "ok") =>
        /\ out.done
        /\ out.vpc_id # 0 /\ out.vpc_cidr # 0
        /\ out.public_subnets # <<>> /\ out.private_subnets # <<>>
        /\ out.iam_role # "" /\ out.instance_profile # ""
        /\ out.ec2_sg # 0 /\ out.alb_sg # 0
        /\ out.vpce_id # 0 /\ out.nat_gateway_id # 0 /\ out.instance_id # 0
        /\ out.alb_arn # 0 /\ out.alb_dns # 0 /\ out.tg_arn # 0
        /\ (out.cloudfront_id = 0) <=> ~enableCf
        /\ (out.cloudfront_domain = 0) <=> ~enableCf

\* C18: when Installer.run is ended by an error at some step, Installer.out
\* is a partial record that holds the identifiers of what the steps before
\* it converged: the fabric, once the network step has returned.
C18_PartialRecordOnAbort ==
    (mode = "idle" /\ status \notin {"none", "running", "ok", "interrupted"}
       /\ ~un.started /\ loc.iamDone) =>
        /\ out.done
        /\ out.vpc_id = loc.vpc

\* C19: during Installer.run an error of the remote that is neither an
\* already-exists answer nor a state that is waited for ends the run at once
\* and reaches the caller: once associate_route_table, attach_role_policy,
\* get_instance_profile or create_route on the main route table has been
\* refused, the run has stopped with that error.
C19_NoErrorSwallowed ==
    loc.swallowed # {} =>
        /\ mode = "idle"
        /\ status \notin {"running", "ok"}

\* What is left in the account of all the installer creates.
Leftovers(a) ==
    (IF a.vpc # 0 THEN {"vpc"} ELSE {})
      \cup (IF a.subnets # {} THEN {"subnet"} ELSE {})
      \cup (IF a.igws # {} THEN {"igw"} ELSE {})
      \cup (IF \E n \in a.nats : n.state # "deleted" THEN {"nat"} ELSE {})
      \cup (IF a.eips # {} THEN {"eip"} ELSE {})
      \cup (IF a.rts # {} THEN {"rt"} ELSE {})
      \cup (IF a.sgs # {} THEN {"sg"} ELSE {})
      \cup (IF a.eps # {} THEN {"vpce"} ELSE {})
      \cup (IF a.role THEN {"role"} ELSE {})
      \cup (IF a.profile THEN {"profile"} ELSE {})
      \cup (IF \E i \in a.insts : i.state # "terminated" THEN {"instance"} ELSE {})
      \cup (IF a.albs # {} THEN {"alb"} ELSE {})
      \cup (IF a.tgs # {} THEN {"tg"} ELSE {})
      \cup (IF a.listeners # {} THEN {"listener"} ELSE {})
      \cup (IF a.cfs # {} THEN {"cf"} ELSE {})

\* Uninstaller.run has ended normally, no call of it refused, no wait of it
\* timed out and nothing left blocked.
UninstalledSmoothly ==
    /\ un.started /\ mode = "idle" /\ status = "ok"
    /\ runFaults = 0
    /\ un.warned = {} /\ un.exhausted = {} /\ un.blocked = {}

\* C20: after Installer.run has succeeded and Uninstaller.run has then
\* completed, every remote call succeeding and every deletion in progress
\* ending within its wait bound, nothing the installer created is left in
\* the account.
C20_RoundTripClean == UninstalledSmoothly => Leftovers(aws) = {}

\* The same holds of installs none of whose runs was killed.
RoundTripCleanUninterrupted == (UninstalledSmoothly /\ kills = 0) => Leftovers(aws) = {}

C22_AlreadyExistsIsReuse ==
    (loc.missed # {} /\ mode = "idle") =>
        status \notin {"InvalidGroup.Duplicate", "DuplicateLoadBalancerName"}

\* C23: the propagation poll of _ensure_iam is ended by a read only when
\* that read shows the role attached and is the 6th read or a later one; a
\* read showing it attached on attempts 0 to 4 and a failed read leave the
\* loop running, which makes 20 reads at most.
C23_IamPollEndsOnLateAttachedRead ==
    w.kind = "iam" =>
        /\ IamPolls = 20 /\ IamMinAttempt = 5
        /\ w.polls <= IamPolls
        /\ w.seen => (w.last = "seen" /\ w.polls >= IamMinAttempt + 1)
        /\ (w.result # "" /\ ~w.seen) => w.polls = IamPolls
        /\ (w.polls < IamPolls
              /\ (w.last = "failed" \/ (w.last = "seen" /\ w.polls <= IamMinAttempt)))
             => w.result = ""

C23_Witness ==
    /\ w.kind = "iam" /\ w.seen /\ w.last = "seen"
    /\ w.polls = IamMinAttempt + 1 /\ w.result = "return"

LoopPc(loop) == IF loop = "subnets" THEN "u_subnets" ELSE "u_sgs"

RECURSIVE ListedTotal(_, _)
ListedTotal(L, loop) ==
    IF L = <<>> THEN 0
    ELSE (IF Head(L).loop = loop THEN Cardinality(Head(L).listed) ELSE 0)
           + ListedTotal(Tail(L), loop)

\* Whether entry k of the round log is the last round of its loop.
RoundEnded(k) ==
    IF k < Len(un.roundLog) THEN un.roundLog[k + 1].round = 0
    ELSE pc # LoopPc(un.roundLog[k].loop)

\* C24: the two retry loops make 6 rounds at most; a round lists what is
\* left and issues one delete call for each listed resource, so that what
\* failed in a round is listed and tried again in the next; a loop ends
\* exactly when the listing was empty, no delete of the round failed, or the
\* round was the 6th, and it sleeps after every round but its last.
C24_RetryRounds ==
    /\ MaxRounds = 6
    /\ \A k \in 1..Len(un.roundLog) :
         LET e == un.roundLog[k] IN
           /\ e.round < MaxRounds
           /\ e.failed \subseteq e.listed
           /\ RoundEnded(k) <=> (e.listed = {} \/ e.failed = {} \/ e.round = MaxRounds - 1)
           /\ e.slept <=> ~RoundEnded(k)
           /\ (~RoundEnded(k) /\ k < Len(un.roundLog)) =>
                /\ un.roundLog[k + 1].loop = e.loop
                /\ un.roundLog[k + 1].round = e.round + 1
                /\ e.failed \subseteq un.roundLog[k + 1].listed
    /\ Count(calls, "delete_subnet") = ListedTotal(un.roundLog, "subnets")
    /\ Count(calls, "delete_security_group") = ListedTotal(un.roundLog, "sgs")

\* A run has ended in which a round had every delete fail and was followed
\* by another, and a loop went to its 6th round with a delete still failing.
C24_Witness ==
    /\ mode = "idle"
    /\ un.started
    /\ \E j \in 1..Len(un.roundLog) :
         /\ un.roundLog[j].listed # {}
         /\ un.roundLog[j].failed = un.roundLog[j].listed
         /\ un.roundLog[j].round < MaxRounds - 1
         /\ j < Len(un.roundLog)
         /\ un.roundLog[j + 1].round = un.roundLog[j].round + 1
    /\ \E k \in 1..Len(un.roundLog) :
         /\ un.roundLog[k].round = MaxRounds - 1
         /\ un.roundLog[k].failed # {}
         /\ ~un.roundLog[k].slept

\* The calls of kind op made on the group of the delete call at place j of
\* un.sgOps, in the same round and before it.
RevokesBefore(j, op) ==
    {i \in 1..(j - 1) : /\ un.sgOps[i].op = op
                        /\ un.sgOps[i].sg = un.sgOps[j].sg
                        /\ un.sgOps[i].round = un.sgOps[j].round}

\* C25: in every round, for every listed group that is not the default one,
\* the revoke of all its inbound rules and the revoke of its outbound rules
\* come before its delete_security_group; the outbound revoke never carries
\* the default allow-all rule (protocol -1, the one range 0.0.0.0/0) and is
\* not made when that rule is the only one; a revoke the remote refused is
\* followed by the delete call all the same.
C25_RevokeBeforeDelete ==
    LET AllowAll == [proto |-> "-1", ranges |-> <<"0.0.0.0/0">>] IN
    /\ \A j \in 1..Len(un.sgOps) :
         LET d == un.sgOps[j] IN
         IF d.op = "delete_security_group"
         THEN /\ d.ingress # {} =>
                   \E i \in RevokesBefore(j, "revoke_security_group_ingress") :
                       un.sgOps[i].ingress = d.ingress
              /\ d.egress \ {AllowAll} # {} =>
                   \E i \in RevokesBefore(j, "revoke_security_group_egress") :
                       un.sgOps[i].egress = d.egress \ {AllowAll}
              /\ d.egress \ {AllowAll} = {} =>
                   RevokesBefore(j, "revoke_security_group_egress") = {}
         ELSE /\ d.op = "revoke_security_group_egress" =>
                   (AllowAll \notin d.egress /\ d.egress # {})
              /\ \E k \in (j + 1)..Len(un.sgOps) :
                   /\ un.sgOps[k].op = "delete_security_group"
                   /\ un.sgOps[k].sg = d.sg
                   /\ un.sgOps[k].round = d.round
    /\ \A k \in 1..Len(un.roundLog) :
         un.roundLog[k].loop = "sgs" =>
             \A g \in un.roundLog[k].listed :
                 \E j \in 1..Len(un.sgOps) :
                     /\ un.sgOps[j].op = "delete_security_group"
                     /\ un.sgOps[j].sg = g
                     /\ un.sgOps[j].round = un.roundLog[k].round

\* A run has ended in which the remote refused the revoke of the two
\* outbound rules of a group, the delete call on that group came next, and
\* a group with the default rule alone was deleted.
C25_Witness ==
    /\ mode = "idle"
    /\ un.started
    /\ \E i \in 1..(Len(un.sgOps) - 1) :
         /\ un.sgOps[i].op = "revoke_security_group_egress"
         /\ ~un.sgOps[i].ok
         /\ Cardinality(un.sgOps[i].egress) = 2
         /\ un.sgOps[i + 1].op = "delete_security_group"
         /\ un.sgOps[i + 1].sg = un.sgOps[i].sg
    /\ \E j \in 1..Len(un.sgOps) :
         /\ un.sgOps[j].op = "delete_security_group"
         /\ un.sgOps[j].ok
         /\ un.sgOps[j].ingress # {}
         /\ Cardinality(un.sgOps[j].egress) = 1

\* C26: delete_cloudfront calls delete_distribution on a distribution only
\* after _wait_cf_deployed has seen it Deployed following the disabling
\* update, so never after a wait that timed out, and the update comes before
\* the delete call.
C26_DeleteOnlyAfterDeployedSeen ==
    /\ un.cfTried \subseteq un.cfObserved
    /\ Before("update_distribution", "delete_distribution")
    /\ ("delete_distribution" \in Range(calls)) => un.cfTried # {}

C28_TargetGroupAfterBalancerGone ==
    /\ un.lbListeners = {}
    /\ un.tgBalancers = {}
    /\ Before("delete_listener", "delete_load_balancer")
    /\ Before("delete_load_balancer", "delete_target_group")

\* C29: the block the installer gives its fabric is the first of the
\* candidates 10.20 to 10.25 that is neither the primary block nor an
\* associated block of a listed fabric, and 10.30 exactly when the six are
\* all in use; the set of listed blocks determines it.
C29_FirstFreeCandidate ==
    (loc.path = "create" /\ loc.cidr # 0) =>
        LET used == {b \in FabricBlocks :
                        \E k \in 1..Len(aws.fabrics) :
                            b = aws.fabrics[k].primary \/ b \in aws.fabrics[k].assoc}
            free == {k \in 1..6 : (19 + k) \notin used}
        IN /\ Candidates = <<20, 21, 22, 23, 24, 25>>
           /\ free # {} => /\ loc.cidr - 19 \in free
                           /\ \A j \in 1..(loc.cidr - 20) : j \notin free
           /\ (loc.cidr = 30) <=> (free = {})
           /\ aws.vpcCidr = loc.cidr

\* The six candidates are in use, five of them as associated blocks: the
\* new fabric has 10.30.
C29_Witness ==
    /\ loc.path = "create"
    /\ loc.cidr = 30
    /\ Len(aws.fabrics) = 1
    /\ Cardinality(aws.fabrics[1].assoc) = 5

\* The index _pick_cidr is to return for a preferred index and a set of
\* known ranges: the preferred one when it is free, else the lowest free one.
ExpectedPick(preferred, existing) ==
    IF preferred < 256 /\ preferred \notin existing THEN preferred
    ELSE CHOOSE x \in (0..255) \ existing : \A y \in (0..255) \ existing : x <= y

\* C30: every create_subnet call of _create_subnets asks for the range
\* _pick_cidr is to return (the preferred /24 when it is not a known range,
\* else the lowest /24 that is not), never for a known range and never for
\* the range of an earlier call of the same _create_subnets call; a range the
\* remote refuses as a collision is passed over and the loop goes on, and
\* any other error of create_subnet ends the run.
C30_SubnetRequests ==
    /\ \A k \in 1..Len(loc.requests) :
         LET r == loc.requests[k] IN
           /\ r.idx = ExpectedPick(r.preferred, r.existing)
           /\ r.idx \notin r.existing
           /\ \A j \in 1..(k - 1) :
                loc.requests[j].tier = r.tier => loc.requests[j].idx # r.idx
    /\ (status = "SubnetLimitExceeded") => (mode = "idle" /\ pc = "idle")
    /\ (Len(loc.requests) > 0 /\ loc.requests[Len(loc.requests)].outcome = "collision"
          /\ pc \in {"pub_sub", "priv_sub"})
         => (mode = "run" /\ status = "running")

\* C31: _classify_subnets puts every input subnet into exactly one of the
\* two lists: public when its Name tag contains 'public' in any case, else
\* private when it contains 'private', else public exactly when a route
\* table associated with it has a route to an internet gateway and the
\* lookup answered, private in every other case; the route tables are looked
\* up for the subnets the tag does not decide and for no other.
C31_EverySubnetClassifiedOnce ==
    \A k \in 1..Len(hist) :
        hist[k].h = "_classify_subnets" =>
            LET r == hist[k].res
                public(s) == Contains(s.name, <<"p", "u", "b", "l", "i", "c">>)
                private(s) == Contains(s.name, <<"p", "r", "i", "v", "a", "t", "e">>)
                igwRoute(s) == \E rt \in aws.rts : s.id \in rt.assoc /\ rt.igw # 0
            IN /\ \A s \in hist[k].args :
                    /\ Count(r.public, s.id) + Count(r.private, s.id) = 1
                    /\ s.id \in Range(r.public) <=>
                         \/ public(s)
                         \/ /\ ~public(s)
                            /\ ~private(s)
                            /\ s.id \notin r.failed
                            /\ igwRoute(s)
                    /\ s.id \in Range(r.lookups) <=> (~public(s) /\ ~private(s))
               /\ Range(r.public) \cup Range(r.private) = Ids(hist[k].args)
               /\ r.failed \subseteq Range(r.lookups)

\* A classification in which a subnet tagged with both words came out
\* public, an upper-case PUBLIC tag came out public or a mixed-case Private
\* one private, and an untagged subnet with a route to an internet gateway
\* came out private because its lookup failed.
C31_Witness ==
    /\ hist # <<>>
    /\ hist[1].h = "_classify_subnets"
    /\ \E s \in hist[1].args :
         /\ s.name \in {<<"p", "r", "i", "v", "a", "t", "e", "-", "P", "u", "b", "l", "i", "c">>,
                        <<"P", "U", "B", "L", "I", "C">>}
         /\ s.id \in Range(hist[1].res.public)
    /\ \E s \in hist[1].args :
         /\ s.name = <<>>
         /\ \E rt \in aws.rts : s.id \in rt.assoc /\ rt.igw # 0
         /\ s.id \in hist[1].res.failed
         /\ s.id \in Range(hist[1].res.private)

\* The ingress rules run asks for on the two groups of its record.
RequiredRules(a, o) ==
    /\ \E g \in a.sgs : g.id = o.alb_sg /\ "alb:80:world" \in g.rules
    /\ \E g \in a.sgs : g.id = o.ec2_sg
                          /\ {"ec2:gateway:alb-sg", "ec2:443:vpc"} \subseteq g.rules

\* C32: InvalidPermission.Duplicate from authorize_security_group_ingress
\* and RouteAlreadyExists from create_route never end the run; any other
\* error of these calls ends it at that call; and a run that succeeded
\* leaves the three required ingress rules on the load-balancer group and
\* the compute group of its record, created or reused.
C32_AlreadyThereIsSuccess ==
    /\ status \notin {"InvalidPermission.Duplicate", "RouteAlreadyExists"}
    /\ \A k \in 1..Len(loc.answers) :
         loc.answers[k].call # "run_instances" =>
             loc.answers[k].code \in {"ok", "InvalidPermission.Duplicate",
                                      "RouteAlreadyExists"}
    /\ status \in {"RulesPerSecurityGroupLimitExceeded", "RouteLimitExceeded"} =>
         /\ mode = "idle"
         /\ calls # <<>>
         /\ calls[Len(calls)] \in
              {"create_route:private"}
                \cup {"authorize_security_group_ingress:" \o r :
                        r \in {"alb:80:world", "ec2:gateway:alb-sg", "ec2:443:vpc"}}
         /\ ~out.done
    /\ (mode = "idle" /\ status = "ok") => RequiredRules(aws, out)

\* A first run was answered RouteAlreadyExists and succeeded, and the second
\* run, which reused the two groups, was answered InvalidPermission.Duplicate
\* three times and succeeded.
C32_Witness ==
    /\ mode = "idle"
    /\ Len(log) = 2
    /\ log[1].status = "ok"
    /\ \E k \in 1..Len(log[1].answers) : log[1].answers[k].code = "RouteAlreadyExists"
    /\ log[2].status = "ok"
    /\ "create_security_group:ec2" \notin Range(log[2].calls)
    /\ Cardinality({k \in 1..Len(log[2].answers) :
                       log[2].answers[k].code = "InvalidPermission.Duplicate"}) = 3
    /\ RequiredRules(aws, out)

\* C33: one call of _create_ec2 calls run_instances 10 times at most; a
\* failed attempt is followed by another only when it failed with 'Invalid
\* IAM Instance Profile', after a sleep of min(5 * k, 30) seconds for the
\* k-th failure; the 10th such failure and every other failure are raised
\* at that attempt; and no attempt follows the one that launched the
\* instance, so that the call launches one instance at most.
C33_LaunchRetry ==
    LET tries == Count(calls, "run_instances")
        retried == {k \in 1..Len(loc.answers) : loc.answers[k].call = "run_instances"}
    IN /\ tries <= 10
       /\ \A k \in retried : loc.answers[k].code = "Invalid IAM Instance Profile"
       /\ Cardinality(retried) = Len(loc.sleeps)
       /\ \A k \in 1..Len(loc.sleeps) :
            loc.sleeps[k] = IF 5 * k < 30 THEN 5 * k ELSE 30
       /\ pc = "ec2_launch" => (tries = Len(loc.sleeps) /\ tries <= 9)
       /\ Count(created, "instance") <= 1
       /\ "instance" \in Range(created) =>
            (pc # "ec2_launch" /\ tries = Len(loc.sleeps) + 1)
       /\ status = "Invalid IAM Instance Profile" =>
            (mode = "idle" /\ tries = 10 /\ Len(loc.sleeps) = 9
               /\ "instance" \notin Range(created))
       /\ status = "InsufficientInstanceCapacity" =>
            (mode = "idle" /\ tries = Len(loc.sleeps) + 1
               /\ "instance" \notin Range(created))

\* The 10th attempt failed like the nine before it and the run has ended
\* with that error, after sleeps of 5, 10, 15, 20, 25 and four times 30
\* seconds.
C33_Witness ==
    /\ mode = "idle"
    /\ status = "Invalid IAM Instance Profile"
    /\ Count(calls, "run_instances") = 10
    /\ loc.sleeps = <<5, 10, 15, 20, 25, 30, 30, 30, 30>>

\* C34: the gateway_token of the record Installer.run returns is the token
\* in the boot payload of the instance the record names, also when the run
\* reused that instance.
C34_RecordTokenIsInstanceToken ==
    out.done =>
        \A i \in aws.insts : i.id = out.instance_id => i.token = out.gateway_token

\* C35: after any sequence of Installer.run invocations at most one instance
\* of the project that is not terminated exists, whatever state (pending,
\* running, stopping, stopped) the instance was in when a run started; and
\* the instance _create_ec2 returned to run was running when it returned.
C35_OneInstance ==
    /\ Cardinality({i \in aws.insts : i.state \notin {"terminated", "shutting-down"}}) <= 1
    /\ (mode = "run" /\ pc \in {"alb", "alb_tg", "alb_reg", "alb_listener", "cf", "finish"}) =>
           \E i \in aws.insts : i.id = loc.inst /\ i.state = "running"

\* C36: _get_or_create_nat returns a NAT gateway only after it was seen
\* available, one it created as well as one it reuses, with the project's
\* name tag or without; so a private route table never has a default route
\* to a gateway that is still pending.
C36_NatSeenAvailable ==
    /\ (mode = "run" /\ pc \in {"priv_rt", "priv_rt_route", "priv_sub", "main_route"}) =>
           \A n \in aws.nats : n.id = loc.nat => n.state = "available"
    /\ \A rt \in aws.rts :
           rt.nat # 0 => \A n \in aws.nats : n.id = rt.nat => n.state # "pending"

\* C37: the range _create_vpc asks for is never the primary block or an
\* associated block of a fabric the account already has, whatever fabrics
\* there are, also when the six candidates are all in use.
C37_NewRangeIsFree ==
    (loc.path = "create" /\ loc.cidr # 0) =>
        \A k \in 1..Len(aws.fabrics) :
            /\ loc.cidr # aws.fabrics[k].primary
            /\ loc.cidr \notin aws.fabrics[k].assoc

\* C38: when only inbound rules that name another group hold the groups of
\* the fabric back, _delete_security_groups_with_retry deletes them all
\* within two rounds in whatever order the remote lists them: a group a
\* second or later round could not delete is used by a network interface,
\* and after a round that deleted all it listed no group but the default
\* one is left.
C38_TwoRoundsSuffice ==
    \A k \in 1..Len(un.roundLog) :
      un.roundLog[k].loop = "sgs" =>
        /\ un.roundLog[k].round >= 1 =>
             \A g \in un.roundLog[k].failed : \E x \in aws.enis : x.sg = g
        /\ un.roundLog[k].failed = {} =>
             \A g \in aws.sgs : g.name = "default"

C38_Witness ==
    /\ aws.reorders < MaxReorders
    /\ \A g \in aws.sgs : g.name = "default"
    /\ \E k \in 1..Len(un.roundLog) : \E m \in 1..Len(un.roundLog) :
         /\ un.roundLog[k].loop = "sgs" /\ un.roundLog[k].round = 0
         /\ Cardinality(un.roundLog[k].failed) >= 2
         /\ un.roundLog[m].loop = "sgs" /\ un.roundLog[m].round = 1
         /\ un.roundLog[m].listed = un.roundLog[k].failed
         /\ un.roundLog[m].failed = {}

\* C39: once _delete_single_vpc is past its release stage, release_address
\* has been called for every elastic address still allocated in the
\* account, that of a NAT gateway found deleting or deleted included.
C39_EveryAddressGotRelease ==
    (/\ mode = "uninstall"
     /\ pc \in {"u_sgs", "u_vpc_del", "u_iam", "u_role", "u_cf_retry", "u_done"})
      => aws.eips \subseteq un.natEips

\* C40: Uninstaller.run makes its mutating calls only on resources of its
\* own project name: no resource the installer of another project made is
\* among those that received a call, the resources of the other project
\* stay as they are, and neither the default security group nor the main
\* route table of the fabric receives a call.
C40_OnlyOwnResources ==
    /\ \A o \in aws.scope.owners : o.project # aws.scope.project => o.id \notin un.touched
    /\ \A g \in aws.sgs : g.name = "default" => g.id \notin un.touched
    /\ \A rt \in aws.rts : rt.main => rt.id \notin un.touched
====
